---- MODULE Spec2Model ----
(***************************************************************************)
(* Level generation and solvability checking of Lode Runner 2099:          *)
(* TileMap (src/src/level/TileMap.ts), SolvabilityChecker                   *)
(* (src/unnamed/part_010, lines 1-532) and LevelGenerator                   *)
(* (src/unnamed/part_009), with SeededRandom (src/src/utils/SeededRandom.ts)*)
(***************************************************************************)
EXTENDS Integers, Sequences, FiniteSets, TLC

VARIABLES
    input,      \* the arguments: [seed, difficultyKey, levelNumber, maxAttempts]
    generator,  \* the LevelGenerator's fields difficulty, complexity, difficultyKey, levelNumber
    rng,        \* the seed field of the generator's SeededRandom
    chk,        \* the SolvabilityChecker's fields
    pc,         \* the statement that runs next
    attempt,    \* the loop counter of generate()
    bestMap,    \* generate()'s bestMap (NoMap is null)
    bestScore,  \* generate()'s bestScore, a fraction [num, den]
    tm,         \* the TileMap at hand: the candidate under construction, or the grid to check
    res,        \* the last SolvabilityResult returned (NoResult before a call)
    ret,        \* the TileMap generate() returned (NoMap before it returns)
    log,        \* history: the candidate and result of every attempt of this generate(),
                \* the grid and result of every checkSolvability call, the holes reported filled
    first,      \* history: what the generate() of an earlier generator with this input returned,
                \* the TileMap before the last call on it
    obs,        \* history: the reachable sets of the grid of the last checkSolvability call
    call        \* the last call on a TileMap or a SeededRandom: [op, n (calls so far), arguments, result]

vars == <<input, generator, rng, chk, pc, attempt, bestMap, bestScore, tm, res, ret, log, first, obs, call>>

-----------------------------------------------------------------------------
(* TileType enum *)
EMPTY == 0
BRICK == 1
BRICK_HARD == 2
LADDER == 3
POLE == 4
BRICK_TRAP == 5
LADDER_EXIT == 6
GOLD == 7
HOLE == 10

Pos(x, y) == [x |-> x, y |-> y]

-----------------------------------------------------------------------------
(* TileMap *)

\* new TileMap(width, height): clear() fills EMPTY and empties the lists
NewTileMap(w, h) ==
    [ width |-> w, height |-> h,
      tiles |-> [r \in 1..h |-> [c \in 1..w |-> EMPTY]],
      holes |-> <<>>,
      playerStart |-> Pos(0, 0),
      enemyStarts |-> <<>>,
      goldPositions |-> <<>>,
      exitLadders |-> <<>>,
      holeDurationMultiplier |-> 10 ]

InBounds(map, x, y) == x >= 0 /\ x < map.width /\ y >= 0 /\ y < map.height

\* getTile that answers EMPTY outside the grid
getTileOpenOutside(map, x, y) ==
    IF x < 0 \/ x >= map.width \/ y < 0 \/ y >= map.height
    THEN EMPTY
    ELSE map.tiles[y + 1][x + 1]

getTile(map, x, y) ==
    IF x < 0 \/ x >= map.width \/ y < 0 \/ y >= map.height
    THEN BRICK_HARD
    ELSE map.tiles[y + 1][x + 1]

setTile(map, x, y, type) ==
    IF x >= 0 /\ x < map.width /\ y >= 0 /\ y < map.height
    THEN [map EXCEPT !.tiles[y + 1][x + 1] = type]
    ELSE map

isSolid(map, x, y) ==
    LET tile == getTile(map, x, y)
    IN tile = BRICK \/ tile = BRICK_HARD \/ tile = BRICK_TRAP

isSupport(map, x, y) ==
    LET tile == getTile(map, x, y)
    IN tile = BRICK \/ tile = BRICK_HARD \/ tile = LADDER \/ tile = LADDER_EXIT

isClimbable(map, x, y) ==
    LET tile == getTile(map, x, y)
    IN tile = LADDER \/ tile = LADDER_EXIT

isBar(map, x, y) == getTile(map, x, y) = POLE

\* canDig without the test of the tile above
canDigAnyBrick(map, x, y) ==
    LET tile == getTile(map, x, y)
    IN tile = BRICK \/ tile = BRICK_TRAP

canDig(map, x, y) ==
    LET tile == getTile(map, x, y)
    IN IF tile # BRICK /\ tile # BRICK_TRAP THEN FALSE
       ELSE IF y > 0 /\ (getTile(map, x, y - 1) = LADDER \/ getTile(map, x, y - 1) = LADDER_EXIT)
            THEN FALSE
            ELSE TRUE

\* CONFIG.HOLE_DURATION_MS and CONFIG.HOLE_WARNING_MS, in a time unit that
\* makes them small; timers and elapsed times are in tenths of that unit, as
\* holeDurationMultiplier is in tenths
HOLE_DURATION_MS == 3
HOLE_WARNING_MS == 1

\* digHole that starts every countdown at the base duration
digHoleBaseDuration(map, x, y, id) ==
    IF ~canDig(map, x, y) THEN [map |-> map, result |-> FALSE]
    ELSE [ map |-> [ setTile(map, x, y, HOLE) EXCEPT
                       !.holes = Append(map.holes, [ x |-> x, y |-> y,
                           timerMs |-> HOLE_DURATION_MS * 10,
                           originalTile |-> getTile(map, x, y), id |-> id ]) ],
           result |-> TRUE ]

\* digHole(x, y): [map, result]; id tells the hole objects apart
digHole(map, x, y, id) ==
    IF ~canDig(map, x, y) THEN [map |-> map, result |-> FALSE]
    ELSE [ map |-> [ setTile(map, x, y, HOLE) EXCEPT
                       !.holes = Append(map.holes,
                                    [ x |-> x, y |-> y,
                                      timerMs |-> HOLE_DURATION_MS * map.holeDurationMultiplier,
                                      originalTile |-> getTile(map, x, y),
                                      id |-> id ]) ],
           result |-> TRUE ]

\* this.setTile(hole.x, hole.y, hole.originalTile) for the holes of filled, in order
RECURSIVE RestoreHoles(_, _, _)
\* updateHoles that leaves the tiles of the filled holes as they are
RestoreHolesNone(map, filled, k) == map

RestoreHoles(map, filled, k) ==
    IF k > Len(filled) THEN map
    ELSE RestoreHoles(setTile(map, filled[k].x, filled[k].y, filled[k].originalTile), filled, k + 1)

\* updateHoles that keeps the holes it reports as filled in this.holes
updateHolesKeeping(map, deltaMs, speedMultiplier) ==
    LET aged == [k \in 1..Len(map.holes) |->
                    [map.holes[k] EXCEPT !.timerMs = @ - (deltaMs * speedMultiplier)]]
        IsFilled(h) == h.timerMs <= 0
        IsWarning(h) == h.timerMs <= HOLE_WARNING_MS * 10 /\ h.timerMs > 0
    IN [ map |-> [RestoreHoles(map, SelectSeq(aged, IsFilled), 1) EXCEPT !.holes = aged],
         filled |-> SelectSeq(aged, IsFilled),
         warning |-> SelectSeq(aged, IsWarning) ]

\* updateHoles(deltaMs, speedMultiplier): [map, filled, warning]
updateHoles(map, deltaMs, speedMultiplier) ==
    LET aged == [k \in 1..Len(map.holes) |->
                    [map.holes[k] EXCEPT !.timerMs = @ - (deltaMs * speedMultiplier)]]
        IsFilled(h) == h.timerMs <= 0
        IsOpen(h) == h.timerMs > 0
        IsWarning(h) == h.timerMs <= HOLE_WARNING_MS * 10 /\ h.timerMs > 0
    IN [ map |-> [ RestoreHoles(map, SelectSeq(aged, IsFilled), 1) EXCEPT
                     !.holes = SelectSeq(aged, IsOpen) ],
         filled |-> SelectSeq(aged, IsFilled),
         warning |-> SelectSeq(aged, IsWarning) ]

\* the position lists of a TileMap
Lists == {"enemyStarts", "goldPositions", "exitLadders"}

\* clone that hands the position lists of the original to the copy
cloneSharingLists(map) ==
    [ map |-> [ NewTileMap(map.width, map.height) EXCEPT
                  !.tiles = [r \in 1..map.height |-> [c \in 1..map.width |-> map.tiles[r][c]]],
                  !.playerStart = Pos(map.playerStart.x, map.playerStart.y),
                  !.enemyStarts = map.enemyStarts,
                  !.goldPositions = map.goldPositions,
                  !.exitLadders = map.exitLadders ],
      shared |-> Lists,
      sharedItems |-> Lists ]

\* clone(): [map, shared, sharedItems]; map is the copy, shared the fields of
\* the copy that are the original's own objects, sharedItems the lists whose
\* entries are the original's own objects.  The copy comes from new TileMap:
\* its holes and holeDurationMultiplier are those of the constructor
clone(map) ==
    [ map |-> [ NewTileMap(map.width, map.height) EXCEPT
                  !.tiles = [r \in 1..map.height |-> [c \in 1..map.width |-> map.tiles[r][c]]],
                  !.playerStart = Pos(map.playerStart.x, map.playerStart.y),
                  !.enemyStarts = [k \in 1..Len(map.enemyStarts) |->
                                      Pos(map.enemyStarts[k].x, map.enemyStarts[k].y)],
                  !.goldPositions = [k \in 1..Len(map.goldPositions) |->
                                      Pos(map.goldPositions[k].x, map.goldPositions[k].y)],
                  !.exitLadders = [k \in 1..Len(map.exitLadders) |->
                                      Pos(map.exitLadders[k].x, map.exitLadders[k].y)] ],
      shared |-> {},
      sharedItems |-> {} ]

-----------------------------------------------------------------------------
(* SolvabilityChecker.  ck is the checker's fields:                        *)
(*   exitLadderPositions (a set of cells), includeExitLadders, difficultyKey *)

NewChecker ==
    [ exitLadderPositions |-> {}, includeExitLadders |-> FALSE, difficultyKey |-> "normal" ]

\* getMaxEnemyAssistedGold with the case 'hard' falling through to 'ninja'
MaxAssistedFallThrough(ck) ==
    CASE ck.difficultyKey \in {"easy", "normal"} -> 0
      [] ck.difficultyKey \in {"hard", "ninja"} -> 2
      [] OTHER -> 0

getMaxEnemyAssistedGold(ck) ==
    CASE ck.difficultyKey \in {"easy", "normal"} -> 0
      [] ck.difficultyKey = "hard" -> 1
      [] ck.difficultyKey = "ninja" -> 2
      [] OTHER -> 0

ckIsClimbable(ck, map, x, y) ==
    IF isClimbable(map, x, y) THEN TRUE
    ELSE IF ck.includeExitLadders THEN Pos(x, y) \in ck.exitLadderPositions
    ELSE FALSE

hasSupport(ck, map, x, y) ==
    IF ckIsClimbable(ck, map, x, y) THEN TRUE
    ELSE IF isBar(map, x, y) THEN TRUE
    ELSE IF y + 1 >= map.height THEN TRUE
    ELSE IF ck.includeExitLadders /\ Pos(x, y + 1) \in ck.exitLadderPositions THEN TRUE
    ELSE isSupport(map, x, y + 1)

canEnter(map, x, y) ==
    IF x < 0 \/ x >= map.width \/ y < 0 \/ y >= map.height THEN FALSE
    ELSE LET tile == getTile(map, x, y)
         IN tile # BRICK /\ tile # BRICK_HARD /\ tile # BRICK_TRAP

\* the cell where the fall loop of addFallDestination stops
RECURSIVE FallDestination(_, _, _, _)
FallDestination(ck, map, x, y) ==
    IF y < map.height - 1
       /\ ~ckIsClimbable(ck, map, x, y)
       /\ ~isBar(map, x, y)
       /\ ~isSupport(map, x, y + 1)
       /\ ~isSolid(map, x, y + 1)
    THEN FallDestination(ck, map, x, y + 1)
    ELSE Pos(x, y)

\* the neighbours pushed for the cell (x, y), given onLadder and canMove
Neighbors(ck, map, x, y, onLadder, canMove) ==
        (IF canMove /\ canEnter(map, x - 1, y) THEN {FallDestination(ck, map, x - 1, y)} ELSE {})
        \cup (IF canMove /\ canEnter(map, x + 1, y) THEN {FallDestination(ck, map, x + 1, y)} ELSE {})
        \cup (IF onLadder /\ canEnter(map, x, y - 1) THEN {Pos(x, y - 1)} ELSE {})
        \cup (IF (onLadder \/ ckIsClimbable(ck, map, x, y + 1)) /\ canEnter(map, x, y + 1)
              THEN {Pos(x, y + 1)} ELSE {})
        \cup (IF canMove /\ canDig(map, x - 1, y + 1) THEN {FallDestination(ck, map, x - 1, y + 1)} ELSE {})
        \cup (IF canMove /\ canDig(map, x + 1, y + 1) THEN {FallDestination(ck, map, x + 1, y + 1)} ELSE {})

getReachableNeighbors(ck, map, pos) ==
    Neighbors(ck, map, pos.x, pos.y, ckIsClimbable(ck, map, pos.x, pos.y),
              ckIsClimbable(ck, map, pos.x, pos.y) \/ isBar(map, pos.x, pos.y)
                  \/ hasSupport(ck, map, pos.x, pos.y))

\* the BFS of findAllReachable, a layer at a time: st is [queue, visited],
\* and visited grows by the unvisited neighbours of the queue, which become
\* the next queue
Advance(st, next) == [queue |-> next, visited |-> st.visited \cup next]

ReachStep(ck, map, st) ==
    IF st.queue = {} THEN st
    ELSE Advance(st, (UNION {getReachableNeighbors(ck, map, p) : p \in st.queue}) \ st.visited)

ReachStep4(ck, map, st) ==
    ReachStep(ck, map, ReachStep(ck, map, ReachStep(ck, map, ReachStep(ck, map, st))))

\* while (queue.length > 0)
RECURSIVE ReachLoop(_, _, _)
ReachLoop(ck, map, st) ==
    IF st.queue = {} THEN st.visited
    ELSE ReachLoop(ck, map, ReachStep4(ck, map, ReachStep4(ck, map, st)))

findAllReachable(ck, map, start) == ReachLoop(ck, map, [queue |-> {start}, visited |-> {start}])

\* hasEnemySupport that holds in mid-air too
hasEnemySupportAnywhere(map, x, y) ==
    IF isClimbable(map, x, y) THEN TRUE
    ELSE IF isBar(map, x, y) THEN TRUE
    ELSE TRUE

hasEnemySupport(map, x, y) ==
    IF isClimbable(map, x, y) THEN TRUE
    ELSE IF isBar(map, x, y) THEN TRUE
    ELSE IF y + 1 >= map.height THEN TRUE
    ELSE isSupport(map, x, y + 1)

\* canEnemyEnter that lets enemies into trap bricks
canEnemyEnterTraps(map, x, y) ==
    IF x < 0 \/ x >= map.width \/ y < 0 \/ y >= map.height THEN FALSE
    ELSE LET tile == getTile(map, x, y)
         IN tile # BRICK /\ tile # BRICK_HARD

canEnemyEnter(map, x, y) ==
    IF x < 0 \/ x >= map.width \/ y < 0 \/ y >= map.height THEN FALSE
    ELSE LET tile == getTile(map, x, y)
         IN tile # BRICK /\ tile # BRICK_HARD /\ tile # BRICK_TRAP

RECURSIVE EnemyFallDestination(_, _, _)
EnemyFallDestination(map, x, y) ==
    IF y < map.height - 1
       /\ ~isClimbable(map, x, y)
       /\ ~isBar(map, x, y)
       /\ ~isSupport(map, x, y + 1)
       /\ ~isSolid(map, x, y + 1)
    THEN EnemyFallDestination(map, x, y + 1)
    ELSE Pos(x, y)

\* the neighbours pushed for the cell (x, y), given onLadder and canMove
EnemyNeighbors(map, x, y, onLadder, canMove) ==
        (IF canMove /\ canEnemyEnter(map, x - 1, y) THEN {EnemyFallDestination(map, x - 1, y)} ELSE {})
        \cup (IF canMove /\ canEnemyEnter(map, x + 1, y) THEN {EnemyFallDestination(map, x + 1, y)} ELSE {})
        \cup (IF onLadder /\ canEnemyEnter(map, x, y - 1) THEN {Pos(x, y - 1)} ELSE {})
        \cup (IF (onLadder \/ isClimbable(map, x, y + 1)) /\ canEnemyEnter(map, x, y + 1)
              THEN {Pos(x, y + 1)} ELSE {})

getEnemyReachableNeighbors(map, pos) ==
    EnemyNeighbors(map, pos.x, pos.y, isClimbable(map, pos.x, pos.y),
                   isClimbable(map, pos.x, pos.y) \/ isBar(map, pos.x, pos.y)
                       \/ hasEnemySupport(map, pos.x, pos.y))

\* the BFS of findAllEnemyReachable and computeEnemyReachablePositions, a
\* layer at a time
EnemyReachStep(map, st) ==
    IF st.queue = {} THEN st
    ELSE Advance(st, (UNION {getEnemyReachableNeighbors(map, p) : p \in st.queue}) \ st.visited)

EnemyReachStep4(map, st) ==
    EnemyReachStep(map, EnemyReachStep(map, EnemyReachStep(map, EnemyReachStep(map, st))))

RECURSIVE EnemyReachLoop(_, _)
EnemyReachLoop(map, st) ==
    IF st.queue = {} THEN st.visited
    ELSE EnemyReachLoop(map, EnemyReachStep4(map, EnemyReachStep4(map, st)))

findAllEnemyReachable(map, start) == EnemyReachLoop(map, [queue |-> {start}, visited |-> {start}])

Range(s) == {s[i] : i \in 1..Len(s)}

\* rows 0..4 (getTile answers BRICK_HARD below the map) plus the enemy starts
computeEnemySpawnPositions(map) ==
    {p \in {Pos(x, y) : x \in 0..(map.width - 1), y \in 0..4} :
        getTile(map, p.x, p.y) \in {LADDER, LADDER_EXIT, EMPTY, POLE}}
    \cup Range(map.enemyStarts)

computeEnemyReachablePositions(map, spawns) == EnemyReachLoop(map, [queue |-> spawns, visited |-> spawns])

\* canEnemyDeliverGold that returns hasDeliveryPath (one shared tile is enough)
DeliverAtOneTile(map, goldPos, playerReachable, enemyReachable) ==
    IF goldPos \notin enemyReachable THEN FALSE
    ELSE playerReachable \cap findAllEnemyReachable(map, goldPos) # {}

\* deliveryTileCount >= 2 (the count stops at 3); hasDeliveryPath is count >= 1
canEnemyDeliverGold(map, goldPos, playerReachable, enemyReachable) ==
    IF goldPos \notin enemyReachable THEN FALSE
    ELSE LET enemyPathFromGold == findAllEnemyReachable(map, goldPos)
             delivery == playerReachable \cap enemyPathFromGold
         IN IF delivery = {} THEN FALSE
            ELSE Cardinality(delivery) >= 2

NoResult == [ solvable |-> FALSE, score |-> [num |-> 0, den |-> 1], debug |-> "none",
              directGold |-> 0, enemyAssistedGold |-> 0, unreachableGold |-> 0,
              enemyAssistedPositions |-> <<>>, exitReachable |-> FALSE ]

\* the classification loop without the call of canEnemyDeliverGold
GoldClassNoDelivery(map, gold, playerReachable, enemyReachable) ==
    IF gold \in playerReachable THEN "direct"
    ELSE IF gold \in enemyReachable THEN "assisted"
    ELSE "unreachable"

\* the classification loop over map.goldPositions (lines 99-110)
GoldClass(map, gold, playerReachable, enemyReachable) ==
    IF gold \in playerReachable THEN "direct"
    ELSE IF gold \in enemyReachable
            /\ canEnemyDeliverGold(map, gold, playerReachable, enemyReachable)
         THEN "assisted"
    ELSE "unreachable"

\* the class of every entry of map.goldPositions, in order
RECURSIVE GoldClassesFrom(_, _, _, _)
GoldClassesFrom(map, i, playerReachable, enemyReachable) ==
    IF i > Len(map.goldPositions) THEN <<>>
    ELSE <<GoldClass(map, map.goldPositions[i], playerReachable, enemyReachable)>>
         \o GoldClassesFrom(map, i + 1, playerReachable, enemyReachable)

GoldClasses(map, playerReachable, enemyReachable) ==
    GoldClassesFrom(map, 1, playerReachable, enemyReachable)

\* the exit test (lines 116-135)
ExitReachable(map, reachableWithExit) ==
    \E col \in {map.exitLadders[i].x : i \in 1..Len(map.exitLadders)} :
        \/ Pos(col, 0) \in reachableWithExit
        \/ \E i \in 1..Len(map.exitLadders) :
              map.exitLadders[i].x = col /\ map.exitLadders[i] \in reachableWithExit

\* the number of entries of class that equal c
Count(class, c) == Cardinality({i \in 1..Len(class) : class[i] = c})

\* the entries of map.goldPositions whose class is "assisted", in order
AssistedPositions(map, class) ==
    LET IsAssisted(i) == class[i] = "assisted"
        assistedIdx == SelectSeq([i \in 1..Len(class) |-> i], IsAssisted)
    IN [k \in 1..Len(assistedIdx) |-> map.goldPositions[assistedIdx[k]]]

\* WithExitLadders without this.includeExitLadders = false: the flag, once set,
\* stays set
KeepIncludeFlag(ck, map, include) ==
    [ck EXCEPT !.exitLadderPositions = Range(map.exitLadders),
               !.includeExitLadders = include \/ ck.includeExitLadders]

\* this.exitLadderPositions = new Set(map.exitLadders); this.includeExitLadders
WithExitLadders(ck, map, include) ==
    [ck EXCEPT !.exitLadderPositions = Range(map.exitLadders), !.includeExitLadders = include]

\* the result object with the score (goldScore + exitScore) / 2
ResultAveraged(ck, map, directGold, enemyAssistedGold, unreachableGold, enemyAssistedPositions, exitReachable) ==
    [ solvable |-> ((directGold + enemyAssistedGold) = Len(map.goldPositions))
                   /\ (enemyAssistedGold <= getMaxEnemyAssistedGold(ck))
                   /\ exitReachable,
      score |-> [num |-> (directGold + enemyAssistedGold)
                         + (IF exitReachable THEN Len(map.goldPositions) ELSE 0),
                 den |-> 2 * Len(map.goldPositions)],
      debug |-> "checked",
      directGold |-> directGold,
      enemyAssistedGold |-> enemyAssistedGold,
      unreachableGold |-> unreachableGold,
      enemyAssistedPositions |-> enemyAssistedPositions,
      exitReachable |-> exitReachable ]

\* the result object (lines 137-160); the score goldScore * exitScore is kept
\* as the fraction num/den
Result(ck, map, directGold, enemyAssistedGold, unreachableGold, enemyAssistedPositions, exitReachable) ==
    [ solvable |-> ((directGold + enemyAssistedGold) = Len(map.goldPositions))
                   /\ (enemyAssistedGold <= getMaxEnemyAssistedGold(ck))
                   /\ exitReachable,
      score |-> [num |-> (directGold + enemyAssistedGold) * (IF exitReachable THEN 1 ELSE 0),
                 den |-> Len(map.goldPositions)],
      debug |-> "checked",
      directGold |-> directGold,
      enemyAssistedGold |-> enemyAssistedGold,
      unreachableGold |-> unreachableGold,
      enemyAssistedPositions |-> enemyAssistedPositions,
      exitReachable |-> exitReachable ]

\* the result for the classes of the gold and the exit test
Classified(ck, map, class, exitReachable) ==
    Result(ck, map, Count(class, "direct"), Count(class, "assisted"), Count(class, "unreachable"),
           AssistedPositions(map, class), exitReachable)

\* checkSolvability that classifies the items with the exit ladders shown
checkSolvabilityExitsShown(ck, map) ==
    IF Len(map.goldPositions) = 0
    THEN [NoResult EXCEPT !.debug = "no gold"]
    ELSE IF Len(map.exitLadders) = 0
    THEN [NoResult EXCEPT !.debug = "no exit ladders"]
    ELSE Classified(ck, map,
            GoldClasses(map,
                findAllReachable(WithExitLadders(ck, map, TRUE), map, map.playerStart),
                computeEnemyReachablePositions(map, computeEnemySpawnPositions(map))),
            ExitReachable(map,
                findAllReachable(WithExitLadders(ck, map, TRUE), map, map.playerStart)))

checkSolvability(ck, map) ==
    IF Len(map.goldPositions) = 0
    THEN [NoResult EXCEPT !.debug = "no gold"]
    ELSE IF Len(map.exitLadders) = 0
    THEN [NoResult EXCEPT !.debug = "no exit ladders"]
    ELSE Classified(ck, map,
            GoldClasses(map,
                findAllReachable(WithExitLadders(ck, map, FALSE), map, map.playerStart),
                computeEnemyReachablePositions(map, computeEnemySpawnPositions(map))),
            ExitReachable(map,
                findAllReachable(WithExitLadders(ck, map, TRUE), map, map.playerStart)))

\* the checker's fields after checkSolvability returns
checkerAfter(ck, map) ==
    IF Len(map.goldPositions) = 0 \/ Len(map.exitLadders) = 0
    THEN [ck EXCEPT !.exitLadderPositions = Range(map.exitLadders)]
    ELSE [ck EXCEPT !.exitLadderPositions = Range(map.exitLadders),
                    !.includeExitLadders = TRUE]

-----------------------------------------------------------------------------
(* SeededRandom (Mulberry32).  A 32-bit value is the record [hi, lo] of its *)
(* two 16-bit halves.  The field seed grows as a double in the code; only   *)
(* its value modulo 2^32 (ToInt32) is ever read, which is what is kept here.*)

W16 == 2 ^ 16

U32(hi, lo) == [hi |-> hi, lo |-> lo]

RECURSIVE XorBits(_, _, _)
XorBits(a, b, n) ==
    IF n = 0 THEN 0
    ELSE (((a % 2) + (b % 2)) % 2) + 2 * XorBits(a \div 2, b \div 2, n - 1)

\* xor of two bytes, tabulated once
XorByte == [a \in 0..255 |-> [b \in 0..255 |-> XorBits(a, b, 8)]]

Xor16(a, b) == XorByte[a % 256][b % 256] + (256 * XorByte[a \div 256][b \div 256])

Xor32(a, b) == U32(Xor16(a.hi, b.hi), Xor16(a.lo, b.lo))

Add32(a, b) ==
    LET lo == a.lo + b.lo
    IN U32((a.hi + b.hi + (lo \div W16)) % W16, lo % W16)

\* t >>> k for 0 < k < 16
Shr32(t, k) ==
    LET d == 2 ^ k
        m == 2 ^ (16 - k)
    IN U32(t.hi \div d, (t.lo \div d) + ((t.hi % d) * m))

\* the full product of two 16-bit numbers, through 8-bit digits
Mul16(a, b) ==
    LET a0 == a % 256
        a1 == a \div 256
        b0 == b % 256
        b1 == b \div 256
        t1 == (a1 * b0) + (a0 * b1)
        low == (a0 * b0) + ((t1 % 256) * 256)
    IN U32((a1 * b1) + (t1 \div 256) + (low \div W16), low % W16)

\* Math.imul: the low 32 bits of the product
Imul(a, b) ==
    U32((Mul16(a.lo, b.lo).hi + Mul16(a.hi, b.lo).lo + Mul16(a.lo, b.hi).lo) % W16,
        Mul16(a.lo, b.lo).lo)

\* t | 1 and t | 61
Or1(t) == U32(t.hi, IF t.lo % 2 = 0 THEN t.lo + 1 ELSE t.lo)
Or61(t) == U32(t.hi, (t.lo - (t.lo % 64)) + 61 + (2 * ((t.lo \div 2) % 2)))

Increment == U32(27947, 31221)   \* 0x6D2B79F5

\* hashString: hash = ((hash << 5) - hash) + char, kept as a 32-bit integer,
\* then Math.abs; str is the sequence of the string's char codes
RECURSIVE HashLoop(_, _, _)
HashLoop(str, i, hash) ==
    IF i > Len(str) THEN hash
    ELSE HashLoop(str, i + 1, Add32(Imul(hash, U32(0, 31)), U32(0, str[i])))

Neg32(t) == Add32(U32(W16 - 1 - t.hi, W16 - 1 - t.lo), U32(0, 1))

hashString(str) ==
    LET hash == HashLoop(str, 1, U32(0, 0))
    IN IF hash.hi >= 32768 THEN Neg32(hash) ELSE hash

\* new SeededRandom(seed) for a string seed
NewSeededRandom(str) == hashString(str)

\* the seed field after next()
SeedAfterNext(seed) == Add32(seed, Increment)

\* t = Math.imul(t ^ t >>> 15, t | 1)
Mix1(t) == Imul(Xor32(t, Shr32(t, 15)), Or1(t))

\* t ^= t + Math.imul(t ^ t >>> 7, t | 61)
Mix2(t) == Xor32(t, Add32(t, Imul(Xor32(t, Shr32(t, 7)), Or61(t))))

\* (t ^ t >>> 14) >>> 0
Mix3(t) == Xor32(t, Shr32(t, 14))

\* the 32-bit integer next() divides by 4294967296, from the advanced seed
NextBits(seed) == Mix3(Mix2(Mix1(SeedAfterNext(seed))))

\* Scale that rounds up
ScaleUp(u, n) == (((u.hi * n) + ((u.lo * n) \div W16)) \div W16) + 1

\* Math.floor(u / 4294967296 * n), for 0 <= n < 2^15
Scale(u, n) == ((u.hi * n) + ((u.lo * n) \div W16)) \div W16

\* u / 4294967296 < num / den, for den <= 1000
Below(u, num, den) == ((u.hi * den) + ((u.lo * den) \div W16)) < (num * W16)

\* range(min, max): Math.floor(next() * (max - min)) + min
RangeValue(seed, min, max) == Scale(NextBits(seed), max - min) + min

\* chance(num / den): next() < num / den
ChanceValue(seed, num, den) == Below(NextBits(seed), num, den)

-----------------------------------------------------------------------------
(* Configuration *)

GRID_WIDTH == 28
GRID_HEIGHT == 16

Keys == {"easy", "normal", "hard", "ninja"}

\* names for which DIFFICULTIES[name] is a member inherited from
\* Object.prototype: neither undefined nor a profile
InheritedKeys == {"constructor", "toString"}

\* such a member as this.difficulty: none of the fields of a profile is defined
\* (a probability that is undefined is never exceeded: 0)
ObjectMember ==
    [ enemies |-> <<>>, gold |-> <<>>, ladderDensity |-> 0, trapBrickChance |-> 0, holeTime |-> 0 ]

\* DIFFICULTIES with the item range of easy in the profile normal
DifficultiesFewItems ==
    [ easy   |-> [ enemies |-> <<1, 2>>, gold |-> <<5, 8>>, ladderDensity |-> 70,
                   trapBrickChance |-> 5, holeTime |-> 13 ],
      normal |-> [ enemies |-> <<2, 3>>, gold |-> <<5, 8>>, ladderDensity |-> 50,
                   trapBrickChance |-> 10, holeTime |-> 10 ],
      hard   |-> [ enemies |-> <<3, 4>>, gold |-> <<12, 16>>, ladderDensity |-> 35,
                   trapBrickChance |-> 15, holeTime |-> 8 ],
      ninja  |-> [ enemies |-> <<4, 5>>, gold |-> <<16, 20>>, ladderDensity |-> 25,
                   trapBrickChance |-> 20, holeTime |-> 6 ] ]

\* DIFFICULTIES: the probabilities ladderDensity, trapBrickChance and
\* complexity are in hundredths, holeTime in tenths
DIFFICULTIES ==
    [ easy   |-> [ enemies |-> <<1, 2>>, gold |-> <<5, 8>>, ladderDensity |-> 70,
                   trapBrickChance |-> 5, holeTime |-> 13 ],
      normal |-> [ enemies |-> <<2, 3>>, gold |-> <<8, 12>>, ladderDensity |-> 50,
                   trapBrickChance |-> 10, holeTime |-> 10 ],
      hard   |-> [ enemies |-> <<3, 4>>, gold |-> <<12, 16>>, ladderDensity |-> 35,
                   trapBrickChance |-> 15, holeTime |-> 8 ],
      ninja  |-> [ enemies |-> <<4, 5>>, gold |-> <<16, 20>>, ladderDensity |-> 25,
                   trapBrickChance |-> 20, holeTime |-> 6 ] ]

\* the complexity factor of each profile, in hundredths
Complexity == [ easy |-> 40, normal |-> 60, hard |-> 80, ninja |-> 100 ]

\* DIFFICULTIES[difficultyKey] || DIFFICULTIES.normal
ProfileKey(difficultyKey) == IF difficultyKey \in Keys THEN difficultyKey ELSE "normal"

-----------------------------------------------------------------------------
(* LevelGenerator.  A generation state gs is [map, seed]: the candidate     *)
(* under construction and the seed field of the generator's SeededRandom.   *)
(* gen is the generator's fields [difficulty, complexity, difficultyKey,    *)
(* levelNumber].                                                            *)

GS(map, seed) == [map |-> map, seed |-> seed]

Min(a, b) == IF a < b THEN a ELSE b
Max(a, b) == IF a > b THEN a ELSE b
Abs(a) == IF a < 0 THEN -a ELSE a

\* createGround that lays hard brick
createGroundHard(map) ==
    [map EXCEPT !.tiles[map.height] = [c \in 1..map.width |-> BRICK_HARD]]

\* the bottom row set to BRICK
createGround(map) ==
    [map EXCEPT !.tiles[map.height] = [c \in 1..map.width |-> BRICK]]

\* evaluates v before e: a loop that hands its state from one iteration to
\* the next computes each iteration's state before it starts the next one
Strict(v, e) == IF v = v THEN e ELSE e

\* for (x = x1; x <= x2; x++) setTile(x, y, type), for a row y of the grid;
\* with onlyEmpty, only where getTile(x, y) === EMPTY
FillRow(map, x1, x2, y, type, onlyEmpty) ==
    [map EXCEPT !.tiles[y + 1] =
        [c \in 1..map.width |->
            IF c - 1 >= x1 /\ c - 1 <= x2 /\ (~onlyEmpty \/ @[c] = EMPTY) THEN type ELSE @[c]]]

RECURSIVE SpineLoop(_, _, _, _, _, _)
SpineLoop(map, seed, spineX, y, zigzag, zigzagInterval) ==
    IF y >= map.height - 1 THEN GS(map, seed)
    ELSE LET m1 == setTile(map, spineX, y, LADDER)
         IN IF zigzag /\ y > 0 /\ y % zigzagInterval = 0 /\ y < map.height - 3
            THEN LET s1 == SeedAfterNext(seed)
                     shift == RangeValue(seed, 2, 5) * (IF ChanceValue(s1, 1, 2) THEN -1 ELSE 1)
                     newX == Max(2, Min(map.width - 3, spineX + shift))
                     m2 == FillRow(m1, Min(spineX, newX), Max(spineX, newX), y, LADDER, TRUE)
                 IN Strict(m2.width, SpineLoop(m2, SeedAfterNext(s1), newX, y + 1, zigzag, zigzagInterval))
            ELSE SpineLoop(m1, seed, spineX, y + 1, zigzag, zigzagInterval)

createMainSpine(gen, gs) ==
    LET complexity == gen.complexity
        spineX == RangeValue(gs.seed, (gs.map.width * 25) \div 100, (gs.map.width * 75) \div 100)
        s1 == SeedAfterNext(gs.seed)
        drawsZig == complexity > 50
        zigzag == drawsZig /\ ChanceValue(s1, complexity, 100)
        s2 == IF drawsZig THEN SeedAfterNext(s1) ELSE s1
        zigzagInterval == IF zigzag THEN RangeValue(s2, 3, 5) ELSE 999
        s3 == IF zigzag THEN SeedAfterNext(s2) ELSE s2
    IN SpineLoop(gs.map, s3, spineX, 4, zigzag, zigzagInterval)

RECURSIVE extendLadderLoop(_, _, _)
extendLadderLoop(map, x, y) ==
    IF y >= map.height THEN map
    ELSE LET tile == getTile(map, x, y)
         IN IF tile = BRICK_HARD THEN map
            ELSE IF tile = BRICK \/ tile = BRICK_TRAP
                 THEN (IF y < map.height - 1 THEN setTile(map, x, y, LADDER) ELSE map)
                 ELSE extendLadderLoop(setTile(map, x, y, LADDER), x, y + 1)

extendLadderDown(map, x, fromRow) == extendLadderLoop(map, x, fromRow)

Includes(seq, v) == \E i \in 1..Len(seq) : seq[i] = v

\* one iteration of the segment loop of createPlatformWithLadders; st is
\* [map, seed, ladderPositions]
PlatformSegment(gen, st, row, seg, segmentWidth) ==
    LET map == st.map
        startX == seg * segmentWidth + RangeValue(st.seed, 0, 3)
        s1 == SeedAfterNext(st.seed)
        endX == Min(startX + RangeValue(s1, 4, segmentWidth), map.width - 1)
        s2 == SeedAfterNext(s1)
    IN IF seg > 0 /\ startX < seg * segmentWidth + 2
       THEN [st EXCEPT !.seed = s2]
       ELSE LET m1 == FillRow(map, startX, endX, row, BRICK, FALSE)
                addLadder == ChanceValue(s2, gen.difficulty.ladderDensity, 100)
                s3 == SeedAfterNext(s2)
            IN IF addLadder
               THEN LET ladderX == startX + RangeValue(s3, 1, Max(2, endX - startX - 1))
                        s4 == SeedAfterNext(s3)
                    IN IF ladderX >= startX /\ ladderX <= endX
                       THEN [map |-> extendLadderDown(m1, ladderX, row), seed |-> s4,
                             ladderPositions |-> Append(st.ladderPositions, ladderX)]
                       ELSE [st EXCEPT !.map = m1, !.seed = s4]
               ELSE [st EXCEPT !.map = m1, !.seed = s3]

RECURSIVE SegmentLoop(_, _, _, _, _, _)
SegmentLoop(gen, st, row, seg, numSegments, segmentWidth) ==
    IF seg >= numSegments THEN st
    ELSE Strict(st.seed, SegmentLoop(gen, PlatformSegment(gen, st, row, seg, segmentWidth), row,
                                     seg + 1, numSegments, segmentWidth))

\* for (const offset of [dx, -dx]): the first offset whose cell is a BRICK
\* gets the ladder, and the break leaves only this inner loop
ConnectAt(st, row, targetX, dx) ==
    LET Hit(x) == x >= 0 /\ x < st.map.width /\ getTile(st.map, x, row) = BRICK
        Put(x) == [st EXCEPT !.map = extendLadderDown(st.map, x, row),
                             !.ladderPositions = IF Includes(st.ladderPositions, x)
                                                 THEN st.ladderPositions
                                                 ELSE Append(st.ladderPositions, x)]
    IN IF Hit(targetX + dx) THEN Put(targetX + dx)
       ELSE IF Hit(targetX - dx) THEN Put(targetX - dx)
       ELSE st

RECURSIVE ConnectLoop(_, _, _, _)
ConnectLoop(st, row, targetX, dx) ==
    IF dx >= 5 THEN st
    ELSE Strict(st.seed, ConnectLoop(ConnectAt(st, row, targetX, dx), row, targetX, dx + 1))

\* the part of createPlatformWithLadders after the segment loop: a ladder
\* close to one of the columns of connectFrom
ConnectPlatform(st, row, connectFrom) ==
    IF Len(connectFrom) > 0
    THEN ConnectLoop([st EXCEPT !.seed = SeedAfterNext(st.seed)], row,
                     connectFrom[RangeValue(st.seed, 0, Len(connectFrom)) + 1], 0)
    ELSE st

\* the part of createPlatformWithLadders after numSegments is drawn
PlatformSegments(gen, gs, row, connectFrom, numSegments) ==
    ConnectPlatform(
        SegmentLoop(gen, [map |-> gs.map, seed |-> SeedAfterNext(gs.seed), ladderPositions |-> <<>>],
                    row, 0, numSegments, gs.map.width \div numSegments),
        row, connectFrom)

\* returns [map, seed, ladderPositions]
createPlatformWithLadders(gen, gs, row, connectFrom) ==
    PlatformSegments(gen, gs, row, connectFrom,
        RangeValue(gs.seed, (200 + gen.complexity) \div 100, ((300 + (gen.complexity * 3)) \div 100) + 1))

platformRows(map) == << map.height - 4, map.height - 7, map.height - 10, 3, map.height - 13 >>

\* iterations i..n of the loop over platformRows; st is [map, seed,
\* ladderPositions], ladderPositions being previousLadderPositions
RECURSIVE PlatformLoop(_, _, _, _)
PlatformLoop(gen, st, i, n) ==
    IF i > n THEN GS(st.map, st.seed)
    ELSE Strict(st.seed,
                PlatformLoop(gen, createPlatformWithLadders(gen, GS(st.map, st.seed),
                                      platformRows(st.map)[i], st.ladderPositions),
                             i + 1, n))

createConnectedPlatforms(gen, gs) ==
    PlatformLoop(gen, [map |-> gs.map, seed |-> gs.seed, ladderPositions |-> <<>>], 1,
                 Min((100 + (gen.complexity * 4)) \div 100, Len(platformRows(gs.map))))

\* the lists createPlatformWithLadders returns in iterations i..n of the loop
\* over platformRows, in order; st is as in PlatformLoop
RECURSIVE BandLadders(_, _, _, _)
BandLadders(gen, st, i, n) ==
    IF i > n THEN <<>>
    ELSE LET band == createPlatformWithLadders(gen, GS(st.map, st.seed),
                                                platformRows(st.map)[i], st.ladderPositions)
         IN Strict(band.seed, <<band.ladderPositions>> \o BandLadders(gen, band, i + 1, n))

\* the values ladderPositions takes in createConnectedPlatforms, band by band
ladderPositionsOfBands(gen, gs) ==
    BandLadders(gen, [map |-> gs.map, seed |-> gs.seed, ladderPositions |-> <<>>], 1,
                Min((100 + (gen.complexity * 4)) \div 100, Len(platformRows(gs.map))))

\* the inner loop "find a platform" of addExtraLadders
RECURSIVE ExtraLadderAt(_, _, _)
ExtraLadderAt(map, x, y) ==
    IF y >= map.height - 2 THEN map
    ELSE IF getTile(map, x, y) = BRICK /\ getTile(map, x, y - 1) = EMPTY
         THEN extendLadderDown(map, x, y - 1)
         ELSE ExtraLadderAt(map, x, y + 1)

RECURSIVE ExtraLadderLoop(_, _, _)
ExtraLadderLoop(gs, i, extraLadders) ==
    IF i >= extraLadders THEN gs
    ELSE LET x == RangeValue(gs.seed, 2, gs.map.width - 2)
             gs1 == GS(ExtraLadderAt(gs.map, x, 2), SeedAfterNext(gs.seed))
         IN Strict(gs1.seed, ExtraLadderLoop(gs1, i + 1, extraLadders))

addExtraLadders(gen, gs) ==
    ExtraLadderLoop(gs, 0, (gen.difficulty.ladderDensity * 10) \div 100)

isWalkableSurface(map, x, y) ==
    IF y >= map.height THEN FALSE
    ELSE getTile(map, x, y) \in {BRICK, BRICK_HARD, BRICK_TRAP, LADDER}

\* the platforms pushed while scanning row y: the maximal runs of walkable
\* cells, left to right
RowPlatforms(map, y) ==
    LET Walk(x) == isWalkableSurface(map, x, y)
        IsStart(x) == Walk(x) /\ (x = 0 \/ ~Walk(x - 1))
        EndOf(s) == CHOOSE e \in s..(map.width - 1) :
                        /\ \A k \in s..e : Walk(k)
                        /\ (e = map.width - 1 \/ ~Walk(e + 1))
        starts == SelectSeq([i \in 1..map.width |-> i - 1], IsStart)
    IN [k \in 1..Len(starts) |-> [y |-> y - 1, startX |-> starts[k], endX |-> EndOf(starts[k])]]

\* for (y = 1; y < map.height - 1; y++): the platforms of rows y1..y2
RECURSIVE PlatformsOfRows(_, _, _)
PlatformsOfRows(map, y1, y2) ==
    IF y1 > y2 THEN <<>>
    ELSE IF y1 = y2 THEN RowPlatforms(map, y1)
    ELSE LET mid == (y1 + y2) \div 2
         IN PlatformsOfRows(map, y1, mid) \o PlatformsOfRows(map, mid + 1, y2)

\* the index pairs <<i, j>>, i < j, that pass "p1.y !== p2.y" for i in a..b,
\* in the order the two nested loops visit them
RECURSIVE PlatformPairs(_, _, _)
PlatformPairs(platforms, a, b) ==
    IF a > b THEN <<>>
    ELSE IF a = b
    THEN LET SameY(j) == platforms[j].y = platforms[a].y
             js == SelectSeq([k \in 1..(Len(platforms) - a) |-> a + k], SameY)
         IN [k \in 1..Len(js) |-> <<a, js[k]>>]
    ELSE LET mid == (a + b) \div 2
         IN PlatformPairs(platforms, a, mid) \o PlatformPairs(platforms, mid + 1, b)

\* the body of the pair loop for platforms p1 and p2 of equal y; st is
\* [map, seed, polesCreated]
PoleBridge(gen, st, p1, p2) ==
    LET map == st.map
        leftPlatform == IF p1.endX < p2.startX THEN p1 ELSE p2
        rightPlatform == IF p1.endX < p2.startX THEN p2 ELSE p1
        gapStart == leftPlatform.endX + 1
        gapEnd == rightPlatform.startX - 1
        gapLength == gapEnd - gapStart + 1
        pathClear == \A x \in gapStart..gapEnd : getTile(map, x, p1.y) \in {EMPTY, GOLD}
        hasDropZone == \E x \in gapStart..gapEnd :
                          getTile(map, x, p1.y + 1) \notin {BRICK, BRICK_HARD, BRICK_TRAP}
        overlaps == \E k \in 1..Len(st.polesCreated) :
                        /\ st.polesCreated[k].y = p1.y
                        /\ ~(gapEnd < st.polesCreated[k].startX \/ gapStart > st.polesCreated[k].endX)
    IN IF gapLength < 3 \/ gapLength > 15 THEN st
       ELSE IF ~pathClear THEN st
       ELSE IF ~hasDropZone THEN st
       ELSE IF overlaps THEN st
       ELSE IF ChanceValue(st.seed, IF gen.difficulty = ObjectMember THEN 0
                                    ELSE 500 + (3 * gen.complexity), 1000)
            THEN [map |-> FillRow(map, leftPlatform.endX, rightPlatform.startX, p1.y, POLE, TRUE),
                  seed |-> SeedAfterNext(st.seed),
                  polesCreated |-> Append(st.polesCreated,
                      [y |-> p1.y, startX |-> leftPlatform.endX, endX |-> rightPlatform.startX])]
            ELSE [st EXCEPT !.seed = SeedAfterNext(st.seed)]

\* iterations a..b of the pair loop, in order
RECURSIVE PoleBridgeLoop(_, _, _, _, _, _)
PoleBridgeLoop(gen, st, platforms, pairs, a, b) ==
    IF a > b THEN st
    ELSE IF a = b THEN PoleBridge(gen, st, platforms[pairs[a][1]], platforms[pairs[a][2]])
    ELSE LET mid == (a + b) \div 2
             left == PoleBridgeLoop(gen, st, platforms, pairs, a, mid)
         IN Strict(left.seed, PoleBridgeLoop(gen, left, platforms, pairs, mid + 1, b))

\* the secondary loop's body for the ladder cell (x, y) and direction dir
LadderPole(gs, x, y, dir) ==
    LET map == gs.map
        Open(dx) == LET checkX == x + dir * dx
                    IN checkX >= 0 /\ checkX < map.width
                       /\ getTile(map, checkX, y) \in {EMPTY, POLE}
        Landing(dx) == getTile(map, x + dir * dx, y + 1) \in {BRICK, BRICK_HARD, LADDER}
        found == {dx \in 1..8 : /\ Open(dx) /\ Landing(dx)
                                /\ \A d \in 1..(dx - 1) : Open(d) /\ ~Landing(d)}
        targetX == IF found = {} THEN -1 ELSE x + dir * (CHOOSE dx \in found : TRUE)
        needsPole == \E checkX \in Min(x, targetX)..Max(x, targetX) :
                        getTile(map, checkX, y + 1) \notin {BRICK, BRICK_HARD, LADDER}
    IN IF targetX # -1 /\ Abs(targetX - x) >= 3
       THEN IF needsPole
            THEN IF ChanceValue(gs.seed, 35, 100)
                 THEN GS(FillRow(map, Min(x, targetX), Max(x, targetX), y, POLE, TRUE),
                         SeedAfterNext(gs.seed))
                 ELSE GS(map, SeedAfterNext(gs.seed))
            ELSE gs
       ELSE gs

\* for (const dir of [-1, 1]) at cell (x, y)
LadderPoles(gs, x, y) ==
    IF getTile(gs.map, x, y) # LADDER THEN gs
    ELSE LET gs1 == LadderPole(gs, x, y, -1)
         IN Strict(gs1.seed, LadderPole(gs1, x, y, 1))

\* iterations a..b of the secondary loops, the cells (x, y) for y from 2 to
\* height - 4 and x from 2 to width - 3 numbered row by row
RECURSIVE LadderPoleLoop(_, _, _)
LadderPoleLoop(gs, a, b) ==
    LET n == gs.map.width - 4
    IN IF a > b THEN gs
       ELSE IF a = b THEN LadderPoles(gs, 2 + (a % n), 2 + (a \div n))
       ELSE LET mid == (a + b) \div 2
                left == LadderPoleLoop(gs, a, mid)
            IN Strict(left.seed, LadderPoleLoop(left, mid + 1, b))

createPoles(gen, gs) ==
    LET platforms == PlatformsOfRows(gs.map, 1, gs.map.height - 2)
        pairs == PlatformPairs(platforms, 1, Len(platforms))
        st == PoleBridgeLoop(gen, [map |-> gs.map, seed |-> gs.seed, polesCreated |-> <<>>],
                             platforms, pairs, 1, Len(pairs))
    IN LadderPoleLoop(GS(st.map, st.seed), 0, ((gs.map.width - 4) * (gs.map.height - 5)) - 1)

\* the body of the loops of addHardBricks at (x, y)
HardBrickAt(gs, x, y) ==
    IF getTile(gs.map, x, y) = BRICK
    THEN GS(IF ChanceValue(gs.seed, 5, 100) THEN setTile(gs.map, x, y, BRICK_HARD) ELSE gs.map,
            SeedAfterNext(gs.seed))
    ELSE gs

\* iterations a..b of the loops of addHardBricks, the cells (x, y) for y from 1
\* to height - 2 and x from 0 to width - 1 numbered row by row
RECURSIVE HardBrickLoop(_, _, _)
HardBrickLoop(gs, a, b) ==
    IF a > b THEN gs
    ELSE IF a = b THEN HardBrickAt(gs, a % gs.map.width, 1 + (a \div gs.map.width))
    ELSE LET mid == (a + b) \div 2
             left == HardBrickLoop(gs, a, mid)
         IN Strict(left.seed, HardBrickLoop(left, mid + 1, b))

addHardBricks(gen, gs) ==
    HardBrickLoop(gs, 0, (gs.map.width * (gs.map.height - 2)) - 1)

\* TrapBrickAt without the test of the tile below
TrapBrickAnywhere(gen, gs, x, y) ==
    IF getTile(gs.map, x, y) = BRICK
    THEN GS(IF ChanceValue(gs.seed, gen.difficulty.trapBrickChance, 100)
            THEN setTile(gs.map, x, y, BRICK_TRAP) ELSE gs.map,
            SeedAfterNext(gs.seed))
    ELSE gs

\* the body of the loops of addTrapBricks at (x, y)
TrapBrickAt(gen, gs, x, y) ==
    IF getTile(gs.map, x, y) = BRICK
    THEN GS(IF ChanceValue(gs.seed, gen.difficulty.trapBrickChance, 100)
               /\ getTile(gs.map, x, y + 1) # LADDER
            THEN setTile(gs.map, x, y, BRICK_TRAP) ELSE gs.map,
            SeedAfterNext(gs.seed))
    ELSE gs

RECURSIVE TrapBrickLoop(_, _, _, _)
TrapBrickLoop(gen, gs, a, b) ==
    IF a > b THEN gs
    ELSE IF a = b THEN TrapBrickAt(gen, gs, a % gs.map.width, 1 + (a \div gs.map.width))
    ELSE LET mid == (a + b) \div 2
             left == TrapBrickLoop(gen, gs, a, mid)
         IN Strict(left.seed, TrapBrickLoop(gen, left, mid + 1, b))

addTrapBricks(gen, gs) ==
    TrapBrickLoop(gen, gs, 0, (gs.map.width * (gs.map.height - 2)) - 1)

\* the body of the loops of ensureLadderAccessibility without the two setTile
LadderAccessKeep(map, x, y) == map

\* the body of the loops of ensureLadderAccessibility at (x, y)
LadderAccessAt(map, x, y) ==
    LET tile == getTile(map, x, y)
        above == getTile(map, x, y - 1)
        leftClear == x > 0 /\ ~isSolid(map, x - 1, y)
        rightClear == x < map.width - 1 /\ ~isSolid(map, x + 1, y)
        m1 == IF (above = BRICK \/ above = BRICK_TRAP) /\ ~leftClear /\ ~rightClear
              THEN setTile(map, x, y - 1, EMPTY) ELSE map
        IsLadder(k) == getTile(m1, x, k) = LADDER \/ getTile(m1, x, k) = LADDER_EXIT
        ladderTop == CHOOSE t \in 0..y : /\ \A k \in t..(y - 1) : IsLadder(k)
                                         /\ (t = 0 \/ ~IsLadder(t - 1))
        aboveTop == getTile(m1, x, ladderTop - 1)
        leftAccessible == x > 0 /\ ~isSolid(m1, x - 1, ladderTop)
                          /\ isSupport(m1, x - 1, ladderTop + 1)
        rightAccessible == x < m1.width - 1 /\ ~isSolid(m1, x + 1, ladderTop)
                           /\ isSupport(m1, x + 1, ladderTop + 1)
    IN IF tile = LADDER \/ tile = LADDER_EXIT
       THEN IF ladderTop = 0 THEN m1
            ELSE IF aboveTop \in {BRICK, BRICK_HARD, BRICK_TRAP}
                    /\ ~leftAccessible /\ ~rightAccessible
                 THEN setTile(m1, x, ladderTop - 1, EMPTY)
                 ELSE m1
       ELSE map

\* iterations a..b of the loops of ensureLadderAccessibility, the cells (x, y)
\* for x from 0 to width - 1 and y from 1 to height - 2 numbered column by
\* column
RECURSIVE LadderAccessLoop(_, _, _)
LadderAccessLoop(map, a, b) ==
    IF a > b THEN map
    ELSE IF a = b THEN LadderAccessAt(map, a \div (map.height - 2), 1 + (a % (map.height - 2)))
    ELSE LET mid == (a + b) \div 2
             left == LadderAccessLoop(map, a, mid)
         IN Strict(left.width, LadderAccessLoop(left, mid + 1, b))

ensureLadderAccessibility(gen, gs) ==
    GS(LadderAccessLoop(gs.map, 0, (gs.map.width * (gs.map.height - 2)) - 1), gs.seed)

\* the attempts loop of placePlayer, from attempt number attempts on
RECURSIVE PlayerTry(_, _)
PlayerTry(gs, attempts) ==
    LET map == gs.map
        groundY == map.height - 2
        x == RangeValue(gs.seed, 2, map.width - 2)
        free == {fx \in 1..(map.width - 2) : ~isSolid(map, fx, groundY)}
    IN IF attempts >= 20
       THEN IF free # {}
            THEN GS([map EXCEPT !.playerStart = Pos(CHOOSE fx \in free : \A o \in free : fx <= o, groundY)],
                    gs.seed)
            ELSE GS([map EXCEPT !.playerStart = Pos(2, groundY)], gs.seed)
       ELSE IF getTile(map, x, groundY) = EMPTY \/ getTile(map, x, groundY) = LADDER
            THEN GS([map EXCEPT !.playerStart = Pos(x, groundY)], SeedAfterNext(gs.seed))
            ELSE PlayerTry(GS(map, SeedAfterNext(gs.seed)), attempts + 1)

placePlayer(gen, gs) == PlayerTry(gs, 0)

\* the seed field after k calls of next(), k < 2^16
SeedAdvance(seed, k) == Add32(seed, Imul(U32(0, k), Increment))

\* iterations a..b of the loop of shuffle, numbered from 0: iteration t has
\* i = array.length - 1 - t and draws j with the seed advanced t times
RECURSIVE ShuffleLoop(_, _, _, _)
ShuffleLoop(array, seed, a, b) ==
    IF a > b THEN array
    ELSE IF a = b
    THEN LET i == Len(array) - 1 - a
             j == RangeValue(SeedAdvance(seed, a), 0, i + 1)
         IN [array EXCEPT ![i + 1] = array[j + 1], ![j + 1] = array[i + 1]]
    ELSE LET mid == (a + b) \div 2
             left == ShuffleLoop(array, seed, a, mid)
         IN Strict(Len(left), ShuffleLoop(left, seed, mid + 1, b))

\* shuffle(array): [array, seed]
shuffle(array, seed) ==
    [array |-> ShuffleLoop(array, seed, 0, Len(array) - 2),
     seed |-> SeedAdvance(seed, Max(Len(array) - 1, 0))]

\* pick(array): array[this.range(0, array.length)]
pick(array, seed) == array[RangeValue(seed, 0, Len(array)) + 1]

isValidGoldSpot(map, x, y) ==
    IF getTile(map, x, y) # EMPTY THEN FALSE
    ELSE getTile(map, x, y + 1) \in {BRICK, BRICK_HARD, LADDER, BRICK_TRAP}

\* the cells (x, y) for y from y1 to y2 and x from 0 to width - 1, row by row
CellsOfRows(map, y1, y2) ==
    [k \in 1..(map.width * (y2 - y1 + 1)) |->
        Pos((k - 1) % map.width, y1 + ((k - 1) \div map.width))]

\* iterations a..b of the first loop over validSpots of placeGold
RECURSIVE SpacedGoldLoop(_, _, _, _, _)
SpacedGoldLoop(placed, validSpots, goldCount, a, b) ==
    IF a > b THEN placed
    ELSE IF a = b
    THEN LET spot == validSpots[a]
             tooClose == \E k \in 1..Len(placed) :
                            Abs(placed[k].x - spot.x) + Abs(placed[k].y - spot.y) < 4
         IN IF Len(placed) >= goldCount THEN placed
            ELSE IF ~tooClose THEN Append(placed, spot) ELSE placed
    ELSE LET mid == (a + b) \div 2
             left == SpacedGoldLoop(placed, validSpots, goldCount, a, mid)
         IN Strict(Len(left), SpacedGoldLoop(left, validSpots, goldCount, mid + 1, b))

\* iterations a..b of the second loop over validSpots of placeGold
RECURSIVE AnyGoldLoop(_, _, _, _, _)
AnyGoldLoop(placed, validSpots, goldCount, a, b) ==
    IF a > b THEN placed
    ELSE IF a = b
    THEN LET spot == validSpots[a]
         IN IF Len(placed) >= goldCount THEN placed
            ELSE IF Includes(placed, spot) THEN placed
            ELSE Append(placed, spot)
    ELSE LET mid == (a + b) \div 2
             left == AnyGoldLoop(placed, validSpots, goldCount, a, mid)
         IN Strict(Len(left), AnyGoldLoop(left, validSpots, goldCount, mid + 1, b))

\* setTile(spot.x, spot.y, type) for every spot of the sequence spots
SetTiles(map, spots, type) ==
    [map EXCEPT !.tiles = [r \in 1..map.height |-> [c \in 1..map.width |->
        IF Includes(spots, Pos(c - 1, r - 1)) THEN type ELSE @[r][c]]]]

placeGold(gen, gs) ==
    LET map == gs.map
        goldCount == RangeValue(gs.seed, gen.difficulty.gold[1], gen.difficulty.gold[2] + 1)
        IsSpot(p) == isValidGoldSpot(map, p.x, p.y)
        validSpots == SelectSeq(CellsOfRows(map, 1, map.height - 2), IsSpot)
        sh == shuffle(validSpots, SeedAfterNext(gs.seed))
        spaced == SpacedGoldLoop(<<>>, sh.array, goldCount, 1, Len(sh.array))
        placed == AnyGoldLoop(spaced, sh.array, goldCount, 1, Len(sh.array))
    IN GS([SetTiles(map, placed, GOLD) EXCEPT !.goldPositions = map.goldPositions \o placed],
          sh.seed)

isValidEnemySpot(map, x, y) ==
    IF getTile(map, x, y) # EMPTY /\ getTile(map, x, y) # LADDER THEN FALSE
    ELSE getTile(map, x, y + 1) \in {BRICK, BRICK_HARD, LADDER}

\* maxCaps without its entries: the default 5 for every key
MaxCapDefault(difficultyKey) == 5

\* maxCaps[this.difficultyKey] || 5
MaxCap(difficultyKey) ==
    CASE difficultyKey = "easy" -> 4
      [] difficultyKey = "normal" -> 5
      [] difficultyKey = "hard" -> 6
      [] difficultyKey = "ninja" -> 7
      [] OTHER -> 5

\* iterations a..b of the loop over validSpots of placeEnemies
RECURSIVE EnemyLoop(_, _, _, _, _)
EnemyLoop(enemyStarts, validSpots, enemyCount, a, b) ==
    IF a > b THEN enemyStarts
    ELSE IF a = b
    THEN LET spot == validSpots[a]
             tooClose == \E k \in 1..Len(enemyStarts) :
                            Abs(enemyStarts[k].x - spot.x) + Abs(enemyStarts[k].y - spot.y) < 3
         IN IF Len(enemyStarts) >= enemyCount THEN enemyStarts
            ELSE IF tooClose THEN enemyStarts
            ELSE Append(enemyStarts, spot)
    ELSE LET mid == (a + b) \div 2
             left == EnemyLoop(enemyStarts, validSpots, enemyCount, a, mid)
         IN Strict(Len(left), EnemyLoop(left, validSpots, enemyCount, mid + 1, b))

placeEnemies(gen, gs) ==
    LET map == gs.map
        baseMin == gen.difficulty.enemies[1]
        baseMax == gen.difficulty.enemies[2]
        levelBonus == (gen.levelNumber - 1) \div 5
        maxCap == MaxCap(gen.difficultyKey)
        minEnemies == Min(baseMin + levelBonus, maxCap - 1)
        maxEnemies == Min(baseMax + levelBonus, maxCap)
        enemyCount == RangeValue(gs.seed, minEnemies, maxEnemies + 1)
        IsSpot(p) == /\ isValidEnemySpot(map, p.x, p.y)
                     /\ Abs(p.x - map.playerStart.x) + Abs(p.y - map.playerStart.y) > 8
        validSpots == SelectSeq(CellsOfRows(map, 0, map.height - 2), IsSpot)
        sh == shuffle(validSpots, SeedAfterNext(gs.seed))
    IN GS([map EXCEPT !.enemyStarts =
               EnemyLoop(map.enemyStarts, sh.array, enemyCount, 1, Len(sh.array))],
          sh.seed)

EXIT_HIDDEN_ROWS == 4

\* addExitLadders without the loop that clears the ladders of the hidden rows
addExitLaddersKeepTop(gen, gs) ==
    LET m1 == gs.map
        pathClear(x) == \A y \in 0..(EXIT_HIDDEN_ROWS - 1) :
                           getTile(m1, x, y) \notin {POLE, BRICK, BRICK_HARD, BRICK_TRAP}
        tops(x) == {y \in EXIT_HIDDEN_ROWS..(EXIT_HIDDEN_ROWS + 2) : getTile(m1, x, y) = LADDER}
        topY(x) == CHOOSE y \in tops(x) : \A o \in tops(x) : y <= o
        IsCandidate(x) == pathClear(x) /\ tops(x) # {}
        xs == SelectSeq([k \in 1..(m1.width - 4) |-> k + 1], IsCandidate)
        Top4(x) == topY(x) = EXIT_HIDDEN_ROWS
        Top5(x) == topY(x) = EXIT_HIDDEN_ROWS + 1
        Top6(x) == topY(x) = EXIT_HIDDEN_ROWS + 2
        exitCandidates == SelectSeq(xs, Top4) \o SelectSeq(xs, Top5) \o SelectSeq(xs, Top6)
        candidateCount == Min(3, Len(exitCandidates))
        center == m1.width \div 2
        exitX == IF Len(exitCandidates) > 0
                 THEN exitCandidates[RangeValue(gs.seed, 0, candidateCount) + 1]
                 ELSE center
        m2 == IF Len(exitCandidates) > 0 THEN m1
              ELSE SetTiles(m1, [k \in 1..4 |-> Pos(center, EXIT_HIDDEN_ROWS + k - 1)], LADDER)
    IN GS([m2 EXCEPT !.exitLadders =
               m2.exitLadders \o [k \in 1..EXIT_HIDDEN_ROWS |-> Pos(exitX, k - 1)]],
          IF Len(exitCandidates) > 0 THEN SeedAfterNext(gs.seed) ELSE gs.seed)

\* addExitLadders; exitCandidates.sort keeps candidates of equal topY in
\* their order of insertion (Array.prototype.sort is stable)
addExitLadders(gen, gs) ==
    LET m1 == [gs.map EXCEPT !.tiles = [r \in 1..gs.map.height |-> [c \in 1..gs.map.width |->
                  IF r - 1 < EXIT_HIDDEN_ROWS /\ @[r][c] = LADDER THEN EMPTY ELSE @[r][c]]]]
        pathClear(x) == \A y \in 0..(EXIT_HIDDEN_ROWS - 1) :
                           getTile(m1, x, y) \notin {POLE, BRICK, BRICK_HARD, BRICK_TRAP}
        tops(x) == {y \in EXIT_HIDDEN_ROWS..(EXIT_HIDDEN_ROWS + 2) : getTile(m1, x, y) = LADDER}
        topY(x) == CHOOSE y \in tops(x) : \A o \in tops(x) : y <= o
        IsCandidate(x) == pathClear(x) /\ tops(x) # {}
        xs == SelectSeq([k \in 1..(m1.width - 4) |-> k + 1], IsCandidate)
        Top4(x) == topY(x) = EXIT_HIDDEN_ROWS
        Top5(x) == topY(x) = EXIT_HIDDEN_ROWS + 1
        Top6(x) == topY(x) = EXIT_HIDDEN_ROWS + 2
        exitCandidates == SelectSeq(xs, Top4) \o SelectSeq(xs, Top5) \o SelectSeq(xs, Top6)
        candidateCount == Min(3, Len(exitCandidates))
        center == m1.width \div 2
        exitX == IF Len(exitCandidates) > 0
                 THEN exitCandidates[RangeValue(gs.seed, 0, candidateCount) + 1]
                 ELSE center
        m2 == IF Len(exitCandidates) > 0 THEN m1
              ELSE SetTiles(m1, [k \in 1..4 |-> Pos(center, EXIT_HIDDEN_ROWS + k - 1)], LADDER)
    IN GS([m2 EXCEPT !.exitLadders =
               m2.exitLadders \o [k \in 1..EXIT_HIDDEN_ROWS |-> Pos(exitX, k - 1)]],
          IF Len(exitCandidates) > 0 THEN SeedAfterNext(gs.seed) ELSE gs.seed)

\* the gold of generateFallback() (goldSpots)
FallbackGold == << Pos(5, 9), Pos(10, 9), Pos(15, 9), Pos(12, 5), Pos(18, 5), Pos(22, 5) >>

\* FallbackTile with the ladder of column 14 starting a row too low
FallbackTileShortLadder(x, y) ==
    IF Includes(FallbackGold, Pos(x, y)) THEN GOLD
    ELSE IF y = 10 /\ x >= 18 /\ x < 24 THEN POLE
    ELSE IF x = 20 /\ y >= 4 /\ y < 6 THEN LADDER
    ELSE IF x = 14 /\ y > 6 /\ y < 10 THEN LADDER
    ELSE IF x = 8 /\ y >= 10 /\ y < GRID_HEIGHT - 1 THEN LADDER
    ELSE IF y = 6 /\ x >= 10 /\ x < 25 THEN BRICK
    ELSE IF y = 10 /\ x >= 3 /\ x < 18 THEN BRICK
    ELSE IF y = GRID_HEIGHT - 1 THEN BRICK
    ELSE EMPTY

\* the tile the setTile calls of generateFallback() leave at (x, y): that of
\* the last call that writes the cell (gold, poles, ladders, platforms, ground)
FallbackTile(x, y) ==
    IF Includes(FallbackGold, Pos(x, y)) THEN GOLD
    ELSE IF y = 10 /\ x >= 18 /\ x < 24 THEN POLE
    ELSE IF x = 20 /\ y >= 4 /\ y < 6 THEN LADDER
    ELSE IF x = 14 /\ y >= 6 /\ y < 10 THEN LADDER
    ELSE IF x = 8 /\ y >= 10 /\ y < GRID_HEIGHT - 1 THEN LADDER
    ELSE IF y = 6 /\ x >= 10 /\ x < 25 THEN BRICK
    ELSE IF y = 10 /\ x >= 3 /\ x < 18 THEN BRICK
    ELSE IF y = GRID_HEIGHT - 1 THEN BRICK
    ELSE EMPTY

generateFallback ==
    [ width |-> GRID_WIDTH, height |-> GRID_HEIGHT,
      tiles |-> [r \in 1..GRID_HEIGHT |-> [c \in 1..GRID_WIDTH |-> FallbackTile(c - 1, r - 1)]],
      holes |-> <<>>,
      playerStart |-> Pos(3, GRID_HEIGHT - 2),
      enemyStarts |-> << Pos(22, GRID_HEIGHT - 2), Pos(16, 9) >>,
      goldPositions |-> FallbackGold,
      exitLadders |-> [k \in 1..4 |-> Pos(20, k - 1)],
      holeDurationMultiplier |-> 10 ]

-----------------------------------------------------------------------------
(* generate(maxAttempts), a statement at a time *)

\* the seeds "PVATVK", "RVBWME", "ABC123" and "D2SJF7" as char codes
Seeds ==
    << <<80, 86, 65, 84, 86, 75>>, <<82, 86, 66, 87, 77, 69>>,
       <<65, 66, 67, 49, 50, 51>>, <<68, 50, 83, 74, 70, 55>> >>

\* the inputs are the first NumSeeds seeds and the budgets 0..MaxAttempts
NumSeeds == 2
MaxAttempts == 2

\* the keys of DIFFICULTIES and a key that is not one of them
DifficultyKeys == Keys \cup {"custom"}
Levels == {1}

NoMap == [none |-> TRUE]
NoObs == [none |-> TRUE]
NoCall == [op |-> "none", n |-> 0]

\* new LevelGenerator(seed, difficultyKey, levelNumber), but for rng
NewLevelGenerator(difficultyKey, levelNumber) ==
    [ difficulty |-> IF difficultyKey \in InheritedKeys THEN ObjectMember
                     ELSE DIFFICULTIES[ProfileKey(difficultyKey)],
      complexity |-> Complexity[ProfileKey(difficultyKey)],
      difficultyKey |-> difficultyKey,
      levelNumber |-> levelNumber ]

\* a random source that goes on from where the one of an earlier generator stopped
SharedRng(prev, seed) == prev

\* this.rng = new SeededRandom(seed) in the constructor of a generator made
\* when the random source of an earlier generator is at prev
NewRng(prev, seed) == NewSeededRandom(seed)

\* score >= bestScore
ScoreAtLeast(a, b) == a.num * b.den >= b.num * a.den

\* score > bestScore, on fractions
ScoreGreater(a, b) == a.num * b.den > b.num * a.den

\* bestScore >= 0.8
ScoreAtLeast80(a) == a.num * 100 >= 80 * a.den

\* bestScore >= 0.99, on fractions
ScoreAtLeast99(a) == a.num * 100 >= 99 * a.den

Init ==
    /\ \E i \in 1..NumSeeds, key \in DifficultyKeys, level \in Levels, n \in 0..MaxAttempts :
          /\ input = [seed |-> Seeds[i], difficultyKey |-> key, levelNumber |-> level,
                      maxAttempts |-> n]
          /\ generator = NewLevelGenerator(key, level)
          /\ rng = NewSeededRandom(Seeds[i])
    /\ chk = NewChecker
    /\ pc = "generate"
    /\ attempt = 0
    /\ bestMap = NoMap
    /\ bestScore = [num |-> -1, den |-> 1]
    /\ tm = NoMap
    /\ res = NoResult
    /\ ret = NoMap
    /\ log = <<>>
    /\ first = NoMap
    /\ obs = NoObs
    /\ call = NoCall

\* let bestMap = null; let bestScore = -1
Generate ==
    /\ pc = "generate"
    /\ bestMap' = NoMap
    /\ bestScore' = [num |-> -1, den |-> 1]
    /\ attempt' = 0
    /\ pc' = "loop"
    /\ UNCHANGED <<input, generator, rng, chk, tm, res, ret, log, first, obs, call>>

\* attempt < maxAttempts: generateCandidate() starts with new TileMap()
NewCandidate ==
    /\ pc = "loop"
    /\ attempt < input.maxAttempts
    /\ tm' = NewTileMap(GRID_WIDTH, GRID_HEIGHT)
    /\ pc' = "createGround"
    /\ UNCHANGED <<input, generator, rng, chk, attempt, bestMap, bestScore, res, ret, log, first, obs, call>>

CreateGround ==
    /\ pc = "createGround"
    /\ tm' = createGround(tm)
    /\ pc' = "createMainSpine"
    /\ UNCHANGED <<input, generator, rng, chk, attempt, bestMap, bestScore, res, ret, log, first, obs, call>>

\* a step of generateCandidate that leaves the map and the seed of gs
StageStep(at, gs, next) ==
    /\ pc = at
    /\ tm' = gs.map
    /\ rng' = gs.seed
    /\ pc' = next
    /\ UNCHANGED <<input, generator, chk, attempt, bestMap, bestScore, res, ret, log, first, obs, call>>

CreateMainSpine ==
    StageStep("createMainSpine", createMainSpine(generator, GS(tm, rng)), "createConnectedPlatforms")

CreateConnectedPlatforms ==
    /\ pc = "createConnectedPlatforms"
    /\ tm' = createConnectedPlatforms(generator, GS(tm, rng)).map
    /\ rng' = createConnectedPlatforms(generator, GS(tm, rng)).seed
    /\ obs' = [bands |-> ladderPositionsOfBands(generator, GS(tm, rng))]
    /\ pc' = "addExtraLadders"
    /\ UNCHANGED <<input, generator, chk, attempt, bestMap, bestScore, res, ret, log, first, call>>

AddExtraLadders ==
    StageStep("addExtraLadders", addExtraLadders(generator, GS(tm, rng)), "createPoles")

CreatePoles ==
    StageStep("createPoles", createPoles(generator, GS(tm, rng)), "addHardBricks")

AddHardBricks ==
    StageStep("addHardBricks", addHardBricks(generator, GS(tm, rng)), "addTrapBricks")

AddTrapBricks ==
    StageStep("addTrapBricks", addTrapBricks(generator, GS(tm, rng)), "ensureLadderAccessibility")

EnsureLadderAccessibility ==
    StageStep("ensureLadderAccessibility", ensureLadderAccessibility(generator, GS(tm, rng)),
              "placePlayer")

PlacePlayer ==
    StageStep("placePlayer", placePlayer(generator, GS(tm, rng)), "placeGold")

\* const [minGold, maxGold] = this.difficulty.gold throws a TypeError when
\* this.difficulty has no field gold
PlaceGoldThrows ==
    /\ pc = "placeGold"
    /\ generator.difficulty.gold = <<>>
    /\ pc' = "error"
    /\ UNCHANGED <<input, generator, rng, chk, attempt, bestMap, bestScore, tm, res, ret, log, first, obs, call>>

PlaceGold ==
    /\ generator.difficulty.gold # <<>>
    /\ StageStep("placeGold", placeGold(generator, GS(tm, rng)), "placeEnemies")

PlaceEnemies ==
    StageStep("placeEnemies", placeEnemies(generator, GS(tm, rng)), "addExitLadders")

AddExitLadders ==
    StageStep("addExitLadders", addExitLadders(generator, GS(tm, rng)), "checkSolvability")

\* const { solvable, score, debug } = this.checker.checkSolvability(map)
CheckCandidate ==
    /\ pc = "checkSolvability"
    /\ res' = checkSolvability(chk, tm)
    /\ chk' = checkerAfter(chk, tm)
    /\ log' = Append(log, [map |-> tm, result |-> res'])
    /\ pc' = "checked"
    /\ UNCHANGED <<input, generator, rng, attempt, bestMap, bestScore, tm, ret, first, obs, call>>

\* if (solvable) return map
ReturnSolvable ==
    /\ pc = "checked"
    /\ res.solvable
    /\ ret' = tm
    /\ pc' = "done"
    /\ UNCHANGED <<input, generator, rng, chk, attempt, bestMap, bestScore, tm, res, log, first, obs, call>>

\* NextAttempt without attempt++
NextAttemptSameIndex ==
    /\ pc = "checked"
    /\ ~res.solvable
    /\ IF ScoreGreater(res.score, bestScore)
       THEN bestScore' = res.score /\ bestMap' = tm
       ELSE UNCHANGED <<bestScore, bestMap>>
    /\ pc' = "loop"
    /\ UNCHANGED <<input, generator, rng, chk, attempt, tm, res, ret, log, first, obs, call>>

\* if (score > bestScore) { bestScore = score; bestMap = map }; attempt++
NextAttempt ==
    /\ pc = "checked"
    /\ ~res.solvable
    /\ IF ScoreGreater(res.score, bestScore)
       THEN bestScore' = res.score /\ bestMap' = tm
       ELSE UNCHANGED <<bestScore, bestMap>>
    /\ attempt' = attempt + 1
    /\ pc' = "loop"
    /\ UNCHANGED <<input, generator, rng, chk, tm, res, ret, log, first, obs, call>>

\* if (bestMap && bestScore >= 0.99) return bestMap
ReturnBest ==
    /\ pc = "loop"
    /\ attempt >= input.maxAttempts
    /\ bestMap # NoMap /\ ScoreAtLeast99(bestScore)
    /\ ret' = bestMap
    /\ pc' = "done"
    /\ UNCHANGED <<input, generator, rng, chk, attempt, bestMap, bestScore, tm, res, log, first, obs, call>>

\* return this.generateFallback()
ReturnFallback ==
    /\ pc = "loop"
    /\ attempt >= input.maxAttempts
    /\ ~(bestMap # NoMap /\ ScoreAtLeast99(bestScore))
    /\ ret' = generateFallback
    /\ pc' = "done"
    /\ UNCHANGED <<input, generator, rng, chk, attempt, bestMap, bestScore, tm, res, log, first, obs, call>>

Next ==
    \/ Generate
    \/ NewCandidate
    \/ CreateGround
    \/ CreateMainSpine
    \/ CreateConnectedPlatforms
    \/ AddExtraLadders
    \/ CreatePoles
    \/ AddHardBricks
    \/ AddTrapBricks
    \/ EnsureLadderAccessibility
    \/ PlacePlayer
    \/ PlaceGold
    \/ PlaceEnemies
    \/ AddExitLadders
    \/ CheckCandidate
    \/ ReturnSolvable
    \/ NextAttempt
    \/ ReturnBest
    \/ ReturnFallback

\* one generator, one call of generate()
Spec == Init /\ [][Next]_vars

\* new LevelGenerator(seed, difficultyKey, levelNumber) with the arguments of
\* the generator whose generate() has returned: a second generator, whose
\* generate() runs next
Regenerate ==
    /\ pc = "done"
    /\ first = NoMap
    /\ first' = ret
    /\ generator' = NewLevelGenerator(input.difficultyKey, input.levelNumber)
    /\ rng' = NewRng(rng, input.seed)
    /\ chk' = NewChecker
    /\ ret' = NoMap
    /\ log' = <<>>
    /\ pc' = "generate"
    /\ UNCHANGED <<input, attempt, bestMap, bestScore, tm, res, obs, call>>

NextTwice ==
    \/ Next
    \/ Regenerate

\* two generators with the same arguments, one after the other
SpecTwice == Init /\ [][NextTwice]_vars

-----------------------------------------------------------------------------
(* checkSolvability(map) called directly on a grid, after an optional       *)
(* setDifficulty(key).                                                      *)

\* the widths of the small grids are 3..MaxWidth
MaxWidth == 4

\* the lower three cells of a column of a small grid, top first
ColumnKinds == {"open", "gold", "ledge", "ledgeGold", "ladder", "gap"}

Column(kind) ==
    CASE kind = "open"      -> <<EMPTY, EMPTY, BRICK>>
      [] kind = "gold"      -> <<EMPTY, GOLD, BRICK>>
      [] kind = "ledge"     -> <<EMPTY, BRICK, BRICK>>
      [] kind = "ledgeGold" -> <<GOLD, BRICK, BRICK>>
      [] kind = "ladder"    -> <<LADDER, LADDER, BRICK>>
      [] kind = "gap"       -> <<EMPTY, EMPTY, EMPTY>>
      [] kind = "roof"      -> <<BRICK, EMPTY, BRICK>>
      [] kind = "pole"      -> <<POLE, EMPTY, BRICK>>
      [] kind = "trap"      -> <<EMPTY, BRICK_TRAP, BRICK>>
      [] kind = "hard"      -> <<EMPTY, BRICK_HARD, BRICK>>

\* the height of the small grids: that of a column
SmallHeight == Len(Column("open"))

\* the cells of a w x h grid row by row
Cells(w, h) == [k \in 1..(w * h) |-> Pos((k - 1) % w, (k - 1) \div w)]

\* a w x h grid built with setTile and the position lists: column 0 is open
\* with the player on its floor, column x is of kind kinds[x], every GOLD cell
\* is in goldPositions, the exit ladder is the column exitCol down to the row
\* above the floor (none if exitCol < 0), and there is an enemy start at the
\* top of the last column if enemy
SmallGrid(w, h, kinds, exitCol, enemy) ==
    LET Tile(x, y) == IF y < h - 3 THEN EMPTY
                      ELSE Column(IF x = 0 THEN "open" ELSE kinds[x])[y - (h - 3) + 1]
        IsGold(p) == Tile(p.x, p.y) = GOLD
    IN [ NewTileMap(w, h) EXCEPT
           !.tiles = [r \in 1..h |-> [c \in 1..w |-> Tile(c - 1, r - 1)]],
           !.playerStart = Pos(0, h - 2),
           !.enemyStarts = IF enemy THEN <<Pos(w - 1, h - 3)>> ELSE <<>>,
           !.goldPositions = SelectSeq(Cells(w, h), IsGold),
           !.exitLadders = IF exitCol < 0 THEN <<>> ELSE [k \in 1..(h - 1) |-> Pos(exitCol, k - 1)] ]

\* the grids handed to checkSolvability: the small grids, two grids whose exit
\* column has a brick in row 0, and the fallback grid
CheckGrids ==
    UNION { { SmallGrid(w, SmallHeight, kinds, exitCol, enemy) :
                kinds \in [1..(w - 1) -> ColumnKinds], exitCol \in {-1, 0, w - 1},
                enemy \in BOOLEAN } : w \in 3..MaxWidth }
    \cup { [SmallGrid(3, SmallHeight, <<"gold", "roof">>, 2, FALSE) EXCEPT !.exitLadders = cells] :
                cells \in {<<Pos(2, 0), Pos(2, 1)>>, <<Pos(2, 1)>>} }
    \cup {generateFallback}

\* the sets checkSolvability and canEnemyDeliverGold compute on map: the
\* locals playerReachable, enemyReachable and reachableWithExit, and
\* enemyPathFromGold for every entry of map.goldPositions
Observe(ck, map) ==
    [ playerReachable |-> findAllReachable(WithExitLadders(ck, map, FALSE), map, map.playerStart),
      enemyReachable |-> computeEnemyReachablePositions(map, computeEnemySpawnPositions(map)),
      reachableWithExit |-> findAllReachable(WithExitLadders(ck, map, TRUE), map, map.playerStart),
      enemyPathFromGold |-> [i \in 1..Len(map.goldPositions) |->
                                findAllEnemyReachable(map, map.goldPositions[i])] ]

InitCheck ==
    /\ tm \in CheckGrids
    /\ chk = NewChecker
    /\ pc = "grid"
    /\ res = NoResult
    /\ obs = NoObs
    /\ input = [seed |-> <<>>, difficultyKey |-> "normal", levelNumber |-> 1, maxAttempts |-> 0]
    /\ generator = NewLevelGenerator("normal", 1)
    /\ rng = NewSeededRandom(<<>>)
    /\ attempt = 0
    /\ bestMap = NoMap
    /\ bestScore = [num |-> -1, den |-> 1]
    /\ ret = NoMap
    /\ log = <<>>
    /\ first = NoMap
    /\ call = NoCall

\* checker.setDifficulty(key)
SetDifficulty(key) ==
    /\ pc = "grid"
    /\ chk' = [chk EXCEPT !.difficultyKey = key]
    /\ pc' = "set"
    /\ UNCHANGED <<input, generator, rng, attempt, bestMap, bestScore, tm, res, ret, log, first, obs, call>>

\* checker.checkSolvability(map)
CheckSolvability ==
    /\ pc \in {"grid", "set"}
    /\ res' = checkSolvability(chk, tm)
    /\ chk' = checkerAfter(chk, tm)
    /\ obs' = Observe(chk, tm)
    /\ pc' = "checked"
    /\ UNCHANGED <<input, generator, rng, attempt, bestMap, bestScore, tm, ret, log, first, call>>

NextCheck ==
    \/ \E key \in DifficultyKeys : SetDifficulty(key)
    \/ CheckSolvability

CheckSpec == InitCheck /\ [][NextCheck]_vars

-----------------------------------------------------------------------------
(* checkSolvability on a grid and then, with the same checker, on the grid  *)
(* with another exit-ladder list.  first is the grid and the result of the  *)
(* first call, call the second call.                                        *)

ExitGrids ==
    { SmallGrid(3, SmallHeight, kinds, exitCol, enemy) :
        kinds \in [1..2 -> {"gold", "ledgeGold", "ladder", "ledge", "trap"}],
        exitCol \in {0, 2}, enemy \in BOOLEAN }

\* the exit-ladder lists of the second grid
ExitLists ==
    { <<Pos(0, 0), Pos(0, 1)>>, <<Pos(2, 0), Pos(2, 1)>>, <<Pos(0, 1)>>, <<Pos(1, 0)>> }

InitExit ==
    /\ InitCheck
    /\ tm \in ExitGrids

\* map.exitLadders = cells; checker.checkSolvability(map)
CheckWithExits(cells) ==
    /\ pc = "checked"
    /\ call = NoCall
    /\ tm' = [tm EXCEPT !.exitLadders = cells]
    /\ res' = checkSolvability(chk, tm')
    /\ chk' = checkerAfter(chk, tm')
    /\ first' = [map |-> tm, result |-> res]
    /\ call' = [op |-> "checkWithExits", n |-> 1]
    /\ UNCHANGED <<input, generator, rng, attempt, bestMap, bestScore, pc, ret, log, obs>>

NextExit ==
    \/ CheckSolvability
    \/ \E cells \in ExitLists : CheckWithExits(cells)

ExitSpec == InitExit /\ [][NextExit]_vars

-----------------------------------------------------------------------------
(* One checker instance, several calls of checkSolvability: on the grid tm  *)
(* and on other grids in between.  log holds the calls in order.            *)

\* the calls of one run are at most MaxCalls
MaxCalls == 3

\* the grids checked in between: one with an item and an exit ladder in its
\* last column, and an empty one
OtherGrids ==
    { SmallGrid(3, SmallHeight, <<"gold", "ladder">>, 2, FALSE), NewTileMap(3, SmallHeight) }

\* new SolvabilityChecker() and a grid of the narrowest kind, or the fallback grid
InitRecheck ==
    /\ InitCheck
    /\ tm.width = 3 \/ tm = generateFallback

\* checker.checkSolvability(g) on the checker as the earlier calls left it
Recheck(g) ==
    /\ pc \in {"grid", "set", "checked"}
    /\ Len(log) < MaxCalls
    /\ res' = checkSolvability(chk, g)
    /\ chk' = checkerAfter(chk, g)
    /\ log' = Append(log, [map |-> g, result |-> res'])
    /\ pc' = "checked"
    /\ UNCHANGED <<input, generator, rng, attempt, bestMap, bestScore, tm, ret, first, obs, call>>

NextRecheck ==
    \/ \E key \in DifficultyKeys : SetDifficulty(key)
    \/ \E g \in {tm} \cup OtherGrids : Recheck(g)

RecheckSpec == InitRecheck /\ [][NextRecheck]_vars

-----------------------------------------------------------------------------
(* Calls on one TileMap: setTile while the grid is built, then digHole and  *)
(* updateHoles, and checkSolvability at any time.  call.n counts the calls, *)
(* first is the TileMap before the last call, log the holes reported filled.*)

\* the calls of one run are at most MaxOps
MaxOps == 4

\* a 3-column grid with the exit ladder in column 0
InitMap ==
    /\ tm \in { SmallGrid(3, SmallHeight, kinds, 0, FALSE) :
                  kinds \in [1..2 -> {"ledge", "ladder", "ledgeGold"}] }
    /\ chk = NewChecker
    /\ pc = "edit"
    /\ res = NoResult
    /\ obs = NoObs
    /\ input = [seed |-> <<>>, difficultyKey |-> "normal", levelNumber |-> 1, maxAttempts |-> 0]
    /\ generator = NewLevelGenerator("normal", 1)
    /\ rng = NewSeededRandom(<<>>)
    /\ attempt = 0
    /\ bestMap = NoMap
    /\ bestScore = [num |-> -1, den |-> 1]
    /\ ret = NoMap
    /\ log = <<>>
    /\ first = tm
    /\ call = NoCall

\* map.setTile(x, y, type), before any hole is dug
SetTile(x, y, type) ==
    /\ pc = "edit"
    /\ call.n < MaxOps
    /\ tm' = setTile(tm, x, y, type)
    /\ first' = tm
    /\ call' = [op |-> "setTile", n |-> call.n + 1, x |-> x, y |-> y, type |-> type]
    /\ UNCHANGED <<input, generator, rng, chk, pc, attempt, bestMap, bestScore, res, ret, log, obs>>

\* map.getTile(x, y)
GetTile(x, y) ==
    /\ call.n < MaxOps
    /\ first' = tm
    /\ call' = [op |-> "getTile", n |-> call.n + 1, x |-> x, y |-> y, result |-> getTile(tm, x, y)]
    /\ UNCHANGED <<input, generator, rng, chk, pc, attempt, bestMap, bestScore, tm, res, ret, log, obs>>

\* map.canDig(x, y)
CanDig(x, y) ==
    /\ call.n < MaxOps
    /\ first' = tm
    /\ call' = [op |-> "canDig", n |-> call.n + 1, x |-> x, y |-> y, result |-> canDig(tm, x, y)]
    /\ UNCHANGED <<input, generator, rng, chk, pc, attempt, bestMap, bestScore, tm, res, ret, log, obs>>

\* map.digHole(x, y)
DigHole(x, y) ==
    /\ call.n < MaxOps
    /\ tm' = digHole(tm, x, y, call.n).map
    /\ first' = tm
    /\ call' = [op |-> "digHole", n |-> call.n + 1, x |-> x, y |-> y,
                result |-> digHole(tm, x, y, call.n).result]
    /\ pc' = "play"
    /\ UNCHANGED <<input, generator, rng, chk, attempt, bestMap, bestScore, res, ret, log, obs>>

\* map.updateHoles(deltaMs, speedMultiplier)
UpdateHoles(deltaMs, speedMultiplier) ==
    /\ call.n < MaxOps
    /\ tm' = updateHoles(tm, deltaMs, speedMultiplier).map
    /\ first' = tm
    /\ call' = [op |-> "updateHoles", n |-> call.n + 1,
                filled |-> updateHoles(tm, deltaMs, speedMultiplier).filled,
                warning |-> updateHoles(tm, deltaMs, speedMultiplier).warning]
    /\ log' = log \o updateHoles(tm, deltaMs, speedMultiplier).filled
    /\ pc' = "play"
    /\ UNCHANGED <<input, generator, rng, chk, attempt, bestMap, bestScore, res, ret, obs>>

\* CheckMap that writes the exit ladder into the grid
CheckMapRevealing ==
    /\ call.n < MaxOps
    /\ res' = checkSolvability(chk, tm)
    /\ chk' = checkerAfter(chk, tm)
    /\ tm' = SetTiles(tm, tm.exitLadders, LADDER_EXIT)
    /\ first' = tm
    /\ call' = [op |-> "checkSolvability", n |-> call.n + 1]
    /\ UNCHANGED <<input, generator, rng, pc, attempt, bestMap, bestScore, ret, log, obs>>

\* checker.checkSolvability(map)
CheckMap ==
    /\ call.n < MaxOps
    /\ res' = checkSolvability(chk, tm)
    /\ chk' = checkerAfter(chk, tm)
    /\ first' = tm
    /\ call' = [op |-> "checkSolvability", n |-> call.n + 1]
    /\ UNCHANGED <<input, generator, rng, pc, attempt, bestMap, bestScore, tm, ret, log, obs>>

NextMap ==
    \/ \E p \in {Pos(1, 0), Pos(1, 1), Pos(-1, 1), Pos(1, SmallHeight)} :
          \E type \in {LADDER_EXIT, BRICK_TRAP} : SetTile(p.x, p.y, type)
    \/ \E p \in {Pos(1, 1), Pos(1, 2), Pos(2, 2), Pos(3, 2)} : DigHole(p.x, p.y)
    \/ \E p \in {Pos(1, 1), Pos(1, 2)} : CanDig(p.x, p.y)
    \/ \E p \in {Pos(1, 1), Pos(-1, 1), Pos(1, SmallHeight)} : GetTile(p.x, p.y)
    \/ \E speedMultiplier \in {1, 3} : UpdateHoles(10, speedMultiplier)
    \/ CheckMap

MapSpec == InitMap /\ [][NextMap]_vars

-----------------------------------------------------------------------------
(* The scenario seed "ABC123", difficulty normal, level 1, with the budget  *)
(* generate() has when it is called without an argument, beside the inputs  *)
(* of Init.                                                                 *)

\* generate(maxAttempts = 100)
DefaultAttempts == 100

\* the seed "ABC123"
ScenarioSeed == Seeds[3]

InitScenario ==
    /\ input = [seed |-> ScenarioSeed, difficultyKey |-> "normal", levelNumber |-> 1,
                maxAttempts |-> DefaultAttempts]
    /\ generator = NewLevelGenerator("normal", 1)
    /\ rng = NewSeededRandom(ScenarioSeed)
    /\ chk = NewChecker
    /\ pc = "generate"
    /\ attempt = 0
    /\ bestMap = NoMap
    /\ bestScore = [num |-> -1, den |-> 1]
    /\ tm = NoMap
    /\ res = NoResult
    /\ ret = NoMap
    /\ log = <<>>
    /\ first = NoMap
    /\ obs = NoObs
    /\ call = NoCall

ScenarioSpec == (Init \/ InitScenario) /\ [][Next]_vars

\* the statements of generate() in the order of one iteration of its loop
Statements ==
    << "loop", "createGround", "createMainSpine", "createConnectedPlatforms",
       "addExtraLadders", "createPoles", "addHardBricks", "addTrapBricks",
       "ensureLadderAccessibility", "placePlayer", "placeGold", "placeEnemies",
       "addExitLadders", "checkSolvability", "checked" >>

\* control leaves the statement it is at
Proceed == pc # "done" /\ pc' \in Range(Statements) \cup {"done"} /\ pc' # pc

\* generate() is not suspended: as long as it has not returned, control moves on
FairSpec == ScenarioSpec /\ WF_pc(Proceed)

-----------------------------------------------------------------------------
(* A generator with a difficulty key that is not a key of DIFFICULTIES, and *)
(* after it a generator with the key "normal" and the same seed and level.  *)

InitUnknown ==
    /\ \E i \in 1..NumSeeds, key \in {"custom"} \cup InheritedKeys, n \in 0..MaxAttempts :
          /\ input = [seed |-> Seeds[i], difficultyKey |-> key, levelNumber |-> 1,
                      maxAttempts |-> n]
          /\ generator = NewLevelGenerator(key, 1)
          /\ rng = NewSeededRandom(Seeds[i])
    /\ chk = NewChecker
    /\ pc = "generate"
    /\ attempt = 0
    /\ bestMap = NoMap
    /\ bestScore = [num |-> -1, den |-> 1]
    /\ tm = NoMap
    /\ res = NoResult
    /\ ret = NoMap
    /\ log = <<>>
    /\ first = NoMap
    /\ obs = NoObs
    /\ call = NoCall

\* new LevelGenerator(seed, "normal", levelNumber) and generate(maxAttempts)
\* with the seed, level and budget of the generator that has returned
RegenerateNormal ==
    /\ pc = "done"
    /\ first = NoMap
    /\ first' = ret
    /\ input' = [input EXCEPT !.difficultyKey = "normal"]
    /\ generator' = NewLevelGenerator("normal", input.levelNumber)
    /\ rng' = NewRng(rng, input.seed)
    /\ chk' = NewChecker
    /\ ret' = NoMap
    /\ log' = <<>>
    /\ pc' = "generate"
    /\ UNCHANGED <<attempt, bestMap, bestScore, tm, res, obs, call>>

NextUnknown ==
    \/ Next
    \/ PlaceGoldThrows
    \/ RegenerateNormal

UnknownSpec == InitUnknown /\ [][NextUnknown]_vars

-----------------------------------------------------------------------------
(* Calls on a SeededRandom, and then on a second SeededRandom made with the *)
(* same seed.  call is the last call: k draws were made before it and n     *)
(* after it; log holds the calls on the first object.                       *)

\* the draws of one SeededRandom are at most MaxDraws
MaxDraws == 3

InitRng ==
    /\ \E i \in 1..NumSeeds :
          /\ input = [seed |-> Seeds[i], difficultyKey |-> "normal", levelNumber |-> 1,
                      maxAttempts |-> 0]
          /\ rng = NewSeededRandom(Seeds[i])
    /\ generator = NewLevelGenerator("normal", 1)
    /\ chk = NewChecker
    /\ pc = "first"
    /\ attempt = 0
    /\ bestMap = NoMap
    /\ bestScore = [num |-> -1, den |-> 1]
    /\ tm = NoMap
    /\ res = NoResult
    /\ ret = NoMap
    /\ log = <<>>
    /\ first = NoMap
    /\ obs = NoObs
    /\ call = NoCall

\* the call made, with the seed it leaves and the draws it made
Called(op, args, result, seed, draws) ==
    /\ call.n + draws <= MaxDraws
    /\ call' = [op |-> op, k |-> call.n, n |-> call.n + draws, args |-> args, result |-> result]
    /\ rng' = seed
    /\ log' = IF pc = "first" THEN Append(log, call') ELSE log
    /\ UNCHANGED <<input, generator, chk, pc, attempt, bestMap, bestScore, tm, res, ret, first, obs>>

\* rng.range(min, max)
CallRange(min, max) ==
    Called("range", <<min, max>>, RangeValue(rng, min, max), SeedAfterNext(rng), 1)

\* rng.pick(array)
CallPick(array) ==
    Called("pick", <<array>>, pick(array, rng), SeedAfterNext(rng), 1)

\* rng.shuffle(array)
CallShuffle(array) ==
    Called("shuffle", <<array>>, shuffle(array, rng).array, shuffle(array, rng).seed,
           Len(array) - 1)

\* new SeededRandom(seed) with the seed of the first object
Reseed ==
    /\ pc = "first"
    /\ pc' = "second"
    /\ rng' = NewSeededRandom(input.seed)
    /\ call' = NoCall
    /\ UNCHANGED <<input, generator, chk, attempt, bestMap, bestScore, tm, res, ret, log, first, obs>>

NextRng ==
    \/ \E b \in {<<0, 3>>, <<-2, 5>>} : CallRange(b[1], b[2])
    \/ CallPick(<<7, 8, 9>>)
    \/ \E array \in {<<1, 2, 3>>, <<4, 4, 5, 6>>} : CallShuffle(array)
    \/ Reseed

RngSpec == InitRng /\ [][NextRng]_vars

-----------------------------------------------------------------------------
(* The neighbour lists the two searches build for a cell of a grid, and the *)
(* two searches from one cell: one call on each grid.  call is the call    *)
(* with its result.                                                         *)

MoveHeight == 4

MoveKinds == {"open", "ledge", "ladder", "gap", "roof", "pole", "trap"}

\* the grid with BRICK_HARD for every BRICK
Hardened(map) ==
    [map EXCEPT !.tiles = [r \in 1..map.height |-> [c \in 1..map.width |->
                              IF map.tiles[r][c] = BRICK THEN BRICK_HARD ELSE map.tiles[r][c]]]]

MoveGrids ==
    UNION { {SmallGrid(3, MoveHeight, kinds, exitCol, FALSE),
             Hardened(SmallGrid(3, MoveHeight, kinds, exitCol, FALSE))} :
        kinds \in [1..2 -> MoveKinds], exitCol \in {-1, 0, 2} }

InitMove ==
    /\ tm \in MoveGrids
    /\ chk = NewChecker
    /\ pc = "grid"
    /\ res = NoResult
    /\ obs = NoObs
    /\ input = [seed |-> <<>>, difficultyKey |-> "normal", levelNumber |-> 1, maxAttempts |-> 0]
    /\ generator = NewLevelGenerator("normal", 1)
    /\ rng = NewSeededRandom(<<>>)
    /\ attempt = 0
    /\ bestMap = NoMap
    /\ bestScore = [num |-> -1, den |-> 1]
    /\ ret = NoMap
    /\ log = <<>>
    /\ first = NoMap
    /\ call = NoCall

\* getReachableNeighbors(map, pos) as findAllReachable calls it in the pass
\* with includeExitLadders = include
PlayerNeighbors(pos, include) ==
    /\ pc = "grid"
    /\ chk' = WithExitLadders(chk, tm, include)
    /\ call' = [op |-> "getReachableNeighbors", n |-> 1, pos |-> pos, include |-> include,
                result |-> getReachableNeighbors(WithExitLadders(chk, tm, include), tm, pos)]
    /\ pc' = "neighbors"
    /\ UNCHANGED <<input, generator, rng, attempt, bestMap, bestScore, tm, res, ret, log, first, obs>>

\* getEnemyReachableNeighbors(map, pos)
EnemyNeighborsOf(pos) ==
    /\ pc = "grid"
    /\ call' = [op |-> "getEnemyReachableNeighbors", n |-> 1, pos |-> pos, include |-> FALSE,
                result |-> getEnemyReachableNeighbors(tm, pos)]
    /\ pc' = "neighbors"
    /\ UNCHANGED <<input, generator, rng, chk, attempt, bestMap, bestScore, tm, res, ret, log, first, obs>>

\* findAllReachable(map, start) of the first pass and findAllEnemyReachable(map, start)
ReachFrom(start) ==
    /\ pc = "grid"
    /\ chk' = WithExitLadders(chk, tm, FALSE)
    /\ call' = [op |-> "reach", n |-> 1, pos |-> start,
                player |-> findAllReachable(WithExitLadders(chk, tm, FALSE), tm, start),
                enemy |-> findAllEnemyReachable(tm, start)]
    /\ pc' = "reached"
    /\ UNCHANGED <<input, generator, rng, attempt, bestMap, bestScore, tm, res, ret, log, first, obs>>

NextMove ==
    \/ \E pos \in Range(Cells(tm.width, tm.height)), include \in BOOLEAN : PlayerNeighbors(pos, include)
    \/ \E pos \in Range(Cells(tm.width, tm.height)) : EnemyNeighborsOf(pos)
    \/ \E start \in Range(Cells(tm.width, tm.height)) : ReachFrom(start)

MoveSpec == InitMove /\ [][NextMove]_vars

-----------------------------------------------------------------------------
(* generate() to its return, and then attempt k of the same call evaluated   *)
(* without the attempts before it: the loop body run on a generator as the  *)
(* constructor leaves it.  first keeps the candidates of the call, call.n   *)
(* is k.                                                                    *)

EvaluateAlone(k) ==
    /\ pc = "done"
    /\ call = NoCall
    /\ k \in 1..Len(log)
    /\ first' = log
    /\ call' = [op |-> "evaluateAlone", n |-> k]
    /\ generator' = NewLevelGenerator(input.difficultyKey, input.levelNumber)
    /\ rng' = NewRng(rng, input.seed)
    /\ chk' = NewChecker
    /\ attempt' = k - 1
    /\ bestMap' = NoMap
    /\ bestScore' = [num |-> -1, den |-> 1]
    /\ ret' = NoMap
    /\ log' = <<>>
    /\ pc' = "loop"
    /\ UNCHANGED <<input, tm, res, obs>>

NextOrder ==
    \/ Next
    \/ \E k \in 1..MaxAttempts : EvaluateAlone(k)

OrderSpec == Init /\ [][NextOrder]_vars

-----------------------------------------------------------------------------
(* Generators of later levels, beside the inputs of Init: the level bonus   *)
(* of placeEnemies is 1 at level 6 and 6 at level 31.                        *)

LaterLevels == {6, 31}

InitLevels ==
    /\ \E key \in Keys, level \in LaterLevels :
          /\ input = [seed |-> Seeds[1], difficultyKey |-> key, levelNumber |-> level,
                      maxAttempts |-> 1]
          /\ generator = NewLevelGenerator(key, level)
    /\ rng = NewSeededRandom(Seeds[1])
    /\ chk = NewChecker
    /\ pc = "generate"
    /\ attempt = 0
    /\ bestMap = NoMap
    /\ bestScore = [num |-> -1, den |-> 1]
    /\ tm = NoMap
    /\ res = NoResult
    /\ ret = NoMap
    /\ log = <<>>
    /\ first = NoMap
    /\ obs = NoObs
    /\ call = NoCall

LevelSpec == (Init \/ InitLevels) /\ [][Next]_vars

-----------------------------------------------------------------------------
(* generate(1) for the seed "S1715", beside the inputs of Init.            *)

ItemSeed == <<83, 49, 55, 49, 53>>

InitItems ==
    /\ \E key \in Keys :
          /\ input = [seed |-> ItemSeed, difficultyKey |-> key, levelNumber |-> 1,
                      maxAttempts |-> 1]
          /\ generator = NewLevelGenerator(key, 1)
    /\ rng = NewSeededRandom(ItemSeed)
    /\ chk = NewChecker
    /\ pc = "generate"
    /\ attempt = 0
    /\ bestMap = NoMap
    /\ bestScore = [num |-> -1, den |-> 1]
    /\ tm = NoMap
    /\ res = NoResult
    /\ ret = NoMap
    /\ log = <<>>
    /\ first = NoMap
    /\ obs = NoObs
    /\ call = NoCall

ItemSpec == (Init \/ InitItems) /\ [][Next]_vars

-----------------------------------------------------------------------------
(* digHole and updateHoles called on one TileMap in any order and without   *)
(* end, on grids with the hole-duration multiplier of the profiles normal   *)
(* and ninja.  call is the last call with its result, first the TileMap     *)
(* before it.                                                               *)

\* holeTime of the profiles ninja and normal, in tenths
HoleMultipliers == {6, 10}

HoleGrids ==
    { [SmallGrid(3, SmallHeight, <<left, right>>, 0, FALSE) EXCEPT !.holeDurationMultiplier = m] :
        left \in {"ledge", "ladder", "trap"}, right \in {"hard", "trap"}, m \in HoleMultipliers }

InitHole ==
    /\ tm \in HoleGrids
    /\ chk = NewChecker
    /\ pc = "play"
    /\ res = NoResult
    /\ obs = NoObs
    /\ input = [seed |-> <<>>, difficultyKey |-> "normal", levelNumber |-> 1, maxAttempts |-> 0]
    /\ generator = NewLevelGenerator("normal", 1)
    /\ rng = NewSeededRandom(<<>>)
    /\ attempt = 0
    /\ bestMap = NoMap
    /\ bestScore = [num |-> -1, den |-> 1]
    /\ ret = NoMap
    /\ log = <<>>
    /\ first = tm
    /\ call = NoCall

\* map.digHole(x, y)
Dig(x, y) ==
    /\ tm' = digHole(tm, x, y, 0).map
    /\ first' = tm
    /\ call' = [op |-> "digHole", n |-> 0, x |-> x, y |-> y, result |-> digHole(tm, x, y, 0).result]
    /\ UNCHANGED <<input, generator, rng, chk, pc, attempt, bestMap, bestScore, res, ret, log, obs>>

\* map.updateHoles(deltaMs, speedMultiplier)
Update(deltaMs, speedMultiplier) ==
    /\ tm' = updateHoles(tm, deltaMs, speedMultiplier).map
    /\ first' = tm
    /\ call' = [op |-> "updateHoles", n |-> 0,
                deltaMs |-> deltaMs, speedMultiplier |-> speedMultiplier,
                filled |-> updateHoles(tm, deltaMs, speedMultiplier).filled,
                warning |-> updateHoles(tm, deltaMs, speedMultiplier).warning]
    /\ UNCHANGED <<input, generator, rng, chk, pc, attempt, bestMap, bestScore, res, ret, log, obs>>

\* the cells digHole is called on: an empty cell, the two cells of column 1
\* below row 0, the middle cell of column 2, and a cell left of the grid
DigCells == {Pos(0, 1), Pos(1, 1), Pos(1, 2), Pos(2, 1), Pos(-1, 1)}

\* updateHoles with an elapsed time of 10 tenths and speed 1 or 2
UpdateAny == \E speedMultiplier \in {1, 2} : Update(10, speedMultiplier)

NextHole ==
    \/ \E p \in DigCells : Dig(p.x, p.y)
    \/ UpdateAny

HoleSpec == InitHole /\ [][NextHole]_vars

\* updateHoles keeps being called
FairHoleSpec == HoleSpec /\ WF_vars(UpdateAny)

-----------------------------------------------------------------------------
(* A TileMap and its clone.  tm is the original, ret the copy (NoMap before *)
(* clone() is called); obs holds what the two share: the fields and the     *)
(* list entries that are one object in both, so that a write through one    *)
(* grid is seen through the other.  first is both grids before the last     *)
(* call, call the call with the grid it was made on.                        *)

MaxCloneOps == 3

CloneGrids ==
    { [SmallGrid(3, SmallHeight, <<left, "ledgeGold">>, 0, TRUE) EXCEPT !.holeDurationMultiplier = m] :
        left \in {"ledge", "trap"}, m \in HoleMultipliers }

InitClone ==
    /\ tm \in CloneGrids
    /\ chk = NewChecker
    /\ pc = "play"
    /\ res = NoResult
    /\ obs = [shared |-> {}, sharedItems |-> {}]
    /\ input = [seed |-> <<>>, difficultyKey |-> "normal", levelNumber |-> 1, maxAttempts |-> 0]
    /\ generator = NewLevelGenerator("normal", 1)
    /\ rng = NewSeededRandom(<<>>)
    /\ attempt = 0
    /\ bestMap = NoMap
    /\ bestScore = [num |-> -1, den |-> 1]
    /\ ret = NoMap
    /\ log = <<>>
    /\ first = [orig |-> tm, copy |-> NoMap]
    /\ call = NoCall

\* the grid a call is made on
Grid(on) == IF on = "orig" THEN tm ELSE ret

\* the other grid after a call has turned one grid into new: the fields that
\* are one object in both hold what the call wrote
Seen(other, new, fields) ==
    IF pc = "play" THEN other
    ELSE [f \in DOMAIN other |-> IF f \in fields THEN new[f] ELSE other[f]]

\* a call on the grid on that turns it into new and writes fields
Write(on, new, fields, op) ==
    /\ call.n < MaxCloneOps
    /\ on = "copy" => pc = "cloned"
    /\ tm' = IF on = "orig" THEN new ELSE Seen(tm, new, fields)
    /\ ret' = IF on = "copy" THEN new ELSE Seen(ret, new, fields)
    /\ first' = [orig |-> tm, copy |-> ret]
    /\ call' = [op |-> op, n |-> call.n + 1, on |-> on]
    /\ UNCHANGED <<input, generator, rng, chk, pc, attempt, bestMap, bestScore, res, log, obs>>

\* const copy = map.clone()
Clone ==
    /\ pc = "play"
    /\ call.n < MaxCloneOps
    /\ ret' = clone(tm).map
    /\ obs' = [shared |-> clone(tm).shared, sharedItems |-> clone(tm).sharedItems]
    /\ pc' = "cloned"
    /\ first' = [orig |-> tm, copy |-> ret]
    /\ call' = [op |-> "clone", n |-> call.n + 1, on |-> "orig"]
    /\ UNCHANGED <<input, generator, rng, chk, attempt, bestMap, bestScore, tm, res, log>>

\* grid.setTile(x, y, type)
SetTileOn(on, x, y, type) ==
    Write(on, setTile(Grid(on), x, y, type), obs.shared \cap {"tiles"}, "setTile")

\* grid.digHole(x, y)
DigOn(on, x, y) ==
    Write(on, digHole(Grid(on), x, y, 0).map, obs.shared \cap {"tiles", "holes"}, "digHole")

\* grid.updateHoles(deltaMs, speedMultiplier)
UpdateOn(on, deltaMs, speedMultiplier) ==
    Write(on, updateHoles(Grid(on), deltaMs, speedMultiplier).map,
          obs.shared \cap {"tiles", "holes"}, "updateHoles")

\* grid[list].push(p)
PushOn(on, list, p) ==
    Write(on, [Grid(on) EXCEPT ![list] = Append(@, p)], obs.shared \cap {list}, "push")

\* grid[list][0].x = x
SetItemOn(on, list, x) ==
    /\ on = "copy" => pc = "cloned"
    /\ Len(Grid(on)[list]) > 0
    /\ Write(on, [Grid(on) EXCEPT ![list][1].x = x],
             (obs.shared \cup obs.sharedItems) \cap {list}, "setItem")

\* grid.playerStart.x = x
SetStartOn(on, x) ==
    Write(on, [Grid(on) EXCEPT !.playerStart.x = x], obs.shared \cap {"playerStart"}, "setStart")

NextClone ==
    \/ Clone
    \/ \E on \in {"orig", "copy"} :
          \/ SetTileOn(on, 0, 1, LADDER)
          \/ \E p \in {Pos(1, 1), Pos(2, 1)} : DigOn(on, p.x, p.y)
          \/ UpdateOn(on, 10, 2)
          \/ \E list \in Lists : PushOn(on, list, Pos(1, 0))
          \/ \E list \in Lists : SetItemOn(on, list, 1)
          \/ SetStartOn(on, 1)

CloneSpec == InitClone /\ [][NextClone]_vars

-----------------------------------------------------------------------------
(* Properties of generate().  log holds, in order, the candidates of the    *)
(* call under way with the results the checker gave for them.               *)

Attempts == 1..Len(log)
NoneSolvable == \A i \in Attempts : ~log[i].result.solvable

\* a is a higher score than b
Higher(a, b) == a.num * b.den > b.num * a.den

\* every item of the candidate of attempt i is collectable and its exit reachable
AllCollected(i) ==
    /\ log[i].result.directGold + log[i].result.enemyAssistedGold = Len(log[i].map.goldPositions)
    /\ log[i].result.exitReachable

\* C1: the grid generate() returns is one that checkSolvability judged
\* solvable, or it is the grid of generateFallback()
C1_SolvableOrFallback ==
    pc = "done" =>
        \/ ret = generateFallback
        \/ \E i \in Attempts : log[i].map = ret /\ log[i].result.solvable

C3_FirstSolvableElseBest ==
    /\ \A i \in Attempts :
          log[i].result.solvable =>
              /\ i = Len(log)
              /\ pc \in {"checked", "done"}
              /\ pc = "done" => ret = log[i].map
    /\ (pc \in {"loop", "done"} /\ Len(log) > 0 /\ NoneSolvable) =>
          \E k \in Attempts :
              /\ bestMap = log[k].map
              /\ bestScore = log[k].result.score
              /\ \A j \in Attempts : ~Higher(log[j].result.score, log[k].result.score)
              /\ \A j \in 1..(k - 1) : Higher(log[k].result.score, log[j].result.score)

\* two different candidates of equal score, none solvable: the first is retained
C3_Witness ==
    /\ pc = "loop" /\ Len(log) = 2 /\ NoneSolvable
    /\ log[1].map # log[2].map
    /\ ~Higher(log[1].result.score, log[2].result.score)
    /\ ~Higher(log[2].result.score, log[1].result.score)
    /\ bestMap = log[1].map

\* C4: when no attempt is solvable, generate() returns the retained best if
\* every item of it is collectable and its exit reachable, and the fallback
\* grid if not; a score is at least 0.99 exactly when it is 1
C4_BestOrFallback ==
    /\ (pc = "done" /\ NoneSolvable) =>
          IF \E k \in Attempts : log[k].map = bestMap /\ AllCollected(k)
          THEN ret = bestMap
          ELSE ret = generateFallback
    /\ \A i \in Attempts :
          ScoreAtLeast99(log[i].result.score)
              <=> (log[i].result.score.num = log[i].result.score.den)
    /\ \A key \in Keys :
          \A total \in DIFFICULTIES[key].gold[1]..DIFFICULTIES[key].gold[2] :
              \A collectable \in 0..total :
                  ScoreAtLeast99([num |-> collectable, den |-> total]) <=> (collectable = total)

\* no attempt of two was solvable and the best one, fully collectable, is returned
C4_Witness ==
    /\ pc = "done" /\ Len(log) = 2 /\ NoneSolvable
    /\ ret = bestMap
    /\ \E k \in Attempts : log[k].map = bestMap /\ AllCollected(k)

\* with the key easy generate() returns no candidate that has an assisted item
C6_EasyNone ==
    (pc = "done" /\ input.difficultyKey = "easy") =>
        \A i \in Attempts : log[i].map = ret => log[i].result.enemyAssistedGold = 0

\* with the key ninja a candidate with at most 2 assisted items, every other
\* item direct and the exit reachable is judged solvable
C6_NinjaTwo ==
    \A i \in Attempts :
        (input.difficultyKey = "ninja" /\ AllCollected(i)
         /\ log[i].result.enemyAssistedGold <= 2) => log[i].result.solvable

\* C6: with the key easy generate() returns no randomized candidate that has an
\* assisted item; with the key ninja a candidate with at most 2 assisted items,
\* every other item direct and the exit reachable is judged solvable
C6_EasyNoneNinjaTwo == C6_EasyNone /\ C6_NinjaTwo

-----------------------------------------------------------------------------
(* Properties of checkSolvability(map), stated on the reachable sets obs of *)
(* the grid tm that was checked.                                            *)

Items == 1..Len(tm.goldPositions)

\* item i is in the player-reachable set of Pass A
Direct(i) == tm.goldPositions[i] \in obs.playerReachable

\* item i is not direct, is in the restricted-reachable set from the spawn
\* cells, and the restricted-reachable set from its cell shares at least two
\* cells with the player-reachable set
Assisted(i) ==
    /\ ~Direct(i)
    /\ tm.goldPositions[i] \in obs.enemyReachable
    /\ Cardinality(obs.enemyPathFromGold[i] \cap obs.playerReachable) >= 2

Unreachable(i) == ~Direct(i) /\ ~Assisted(i)

\* with the exit ladder revealed, a cell of it or the top of its column is
\* player-reachable
ExitOpen ==
    \E i \in 1..Len(tm.exitLadders) :
        \/ tm.exitLadders[i] \in obs.reachableWithExit
        \/ Pos(tm.exitLadders[i].x, 0) \in obs.reachableWithExit

\* the ceiling on assisted items of a difficulty key
Ceiling(key) ==
    IF key = "hard" THEN 1 ELSE IF key = "ninja" THEN 2 ELSE 0

\* solvable is true exactly when every item is direct or assisted, the
\* assisted items are no more than the ceiling of the key, and the exit is
\* reachable
SolvableAsStated ==
    res.solvable <=>
        /\ \A i \in Items : Direct(i) \/ Assisted(i)
        /\ Cardinality({i \in Items : Assisted(i)}) <= Ceiling(chk.difficultyKey)
        /\ ExitOpen

\* C5: the fallback grid is solvable under every difficulty key: every item of
\* it is direct and the exit is reachable once the exit ladder is revealed
C5_FallbackSolvable ==
    (pc = "checked" /\ tm = generateFallback) =>
        /\ res.solvable
        /\ res.directGold = Len(tm.goldPositions)
        /\ res.enemyAssistedGold = 0
        /\ \A i \in Items : Direct(i)
        /\ ExitOpen

\* the fallback grid has been checked with the key easy
C5_Witness ==
    /\ pc = "checked" /\ tm = generateFallback
    /\ chk.difficultyKey = "easy"
    /\ res.solvable

\* C7 as stated: for every grid, solvable is true exactly when every item is
\* direct or assisted, the assisted items are no more than the ceiling of the
\* checker's key, and the exit is reachable
C7_SolvableIff ==
    pc = "checked" => SolvableAsStated

\* C7 for grids with at least one item
C7_SolvableIffWithItems ==
    (pc = "checked" /\ Len(tm.goldPositions) > 0) => SolvableAsStated

\* a grid with two assisted items is solvable under the key ninja
C7_Witness ==
    /\ pc = "checked" /\ chk.difficultyKey = "ninja"
    /\ res.solvable
    /\ Cardinality({i \in Items : Assisted(i)}) = 2

\* C8: for a grid with at least one item and one exit-ladder cell, the counts
\* directGold, enemyAssistedGold and unreachableGold are the numbers of direct,
\* assisted and unreachable items, and they add up to the number of items
C8_Classification ==
    (pc = "checked" /\ Len(tm.goldPositions) > 0 /\ Len(tm.exitLadders) > 0) =>
        /\ res.directGold = Cardinality({i \in Items : Direct(i)})
        /\ res.enemyAssistedGold = Cardinality({i \in Items : Assisted(i)})
        /\ res.unreachableGold = Cardinality({i \in Items : Unreachable(i)})
        /\ Range(res.enemyAssistedPositions) = {tm.goldPositions[i] : i \in {j \in Items : Assisted(j)}}
        /\ res.directGold + res.enemyAssistedGold + res.unreachableGold = Len(tm.goldPositions)

\* a grid with an exit ladder, a direct item and an assisted item
C8_Witness ==
    /\ pc = "checked" /\ Len(tm.exitLadders) > 0
    /\ \E i \in Items : Direct(i)
    /\ \E i \in Items : Assisted(i)
    /\ res.directGold >= 1 /\ res.enemyAssistedGold >= 1

\* C9: the score is the share of direct or assisted items if the exit is
\* reachable and 0 if not, and it is between 0 and 1
C9_Score ==
    pc = "checked" =>
        /\ res.score.den > 0
        /\ 0 <= res.score.num /\ res.score.num <= res.score.den
        /\ IF ExitOpen
           THEN res.score.num * Len(tm.goldPositions)
                    = Cardinality({i \in Items : ~Unreachable(i)}) * res.score.den
           ELSE res.score.num = 0

\* every item is collectable, the exit is not reachable, the score is 0
C9_Witness ==
    /\ pc = "checked" /\ Len(tm.goldPositions) > 0 /\ Len(tm.exitLadders) > 0
    /\ \A i \in Items : ~Unreachable(i)
    /\ ~ExitOpen
    /\ res.score.num = 0

\* C10 as stated: for a grid with an item the player cannot reach and that
\* cannot be delivered, unreachableGold is at least 1 and solvable is false
C10_UnreachableReported ==
    (pc = "checked" /\ \E i \in Items : Unreachable(i)) =>
        res.unreachableGold >= 1 /\ ~res.solvable

\* C10 for grids with at least one exit-ladder cell
C10_UnreachableReportedWithExit ==
    (pc = "checked" /\ Len(tm.exitLadders) > 0 /\ \E i \in Items : Unreachable(i)) =>
        res.unreachableGold >= 1 /\ ~res.solvable

\* the 3 x 3 grid with a floor, no ladder and an item beyond a gap of the floor
C10_Witness ==
    /\ pc = "checked"
    /\ tm.width = 3 /\ tm.height = 3
    /\ getTile(tm, 0, 2) = BRICK /\ getTile(tm, 1, 2) = EMPTY /\ getTile(tm, 2, 2) = BRICK
    /\ tm.goldPositions = <<Pos(2, 1)>>
    /\ Len(tm.exitLadders) > 0
    /\ Unreachable(1)
    /\ res.unreachableGold = 1 /\ ~res.solvable

-----------------------------------------------------------------------------
(* Properties of repeated calls of checkSolvability on one checker.         *)

\* C11: two calls of checkSolvability on the same grid with the same key
\* return equal solvable, score and direct, assisted and unreachable counts,
\* whatever grids the checker has checked in between
C11_Idempotent ==
    \A i \in Attempts : \A j \in Attempts :
        log[i].map = log[j].map =>
            /\ log[i].result.solvable = log[j].result.solvable
            /\ log[i].result.score.num * log[j].result.score.den
                   = log[j].result.score.num * log[i].result.score.den
            /\ log[i].result.directGold = log[j].result.directGold
            /\ log[i].result.enemyAssistedGold = log[j].result.enemyAssistedGold
            /\ log[i].result.unreachableGold = log[j].result.unreachableGold

\* a grid with an assisted item is checked, then another grid with an exit
\* ladder elsewhere, then the first grid again
C11_Witness ==
    /\ Len(log) = 3
    /\ log[1].map = tm /\ log[3].map = tm /\ log[2].map # tm
    /\ Len(log[2].map.exitLadders) > 0
    /\ Len(tm.exitLadders) > 0
    /\ log[3].result.enemyAssistedGold >= 1


C13_FilledOnce ==
    /\ \A i \in 1..Len(log) : \A j \in 1..Len(log) : i # j => log[i].id # log[j].id
    /\ call.op = "updateHoles" =>
           \A k \in 1..Len(call.filled) :
               tm.tiles[call.filled[k].y + 1][call.filled[k].x + 1] = call.filled[k].originalTile

\* a brick was dug and filled, dug again and filled again
C13_Witness ==
    /\ call.op = "updateHoles"
    /\ Len(call.filled) = 1
    /\ Len(log) = 2
    /\ log[1].x = log[2].x /\ log[1].y = log[2].y
    /\ log[2].originalTile = BRICK
    /\ log[1].id # log[2].id



\* C14: canDig(x, y) is false whenever the tile at (x, y - 1) is a ladder or an
\* exit ladder, and digHole never turns a brick directly under a ladder into a
\* hole: it returns false and leaves the grid as it was
C14_NoDigUnderLadder ==
    call.op \in {"canDig", "digHole"} =>
        \/ call.y < 1 \/ call.y > first.height \/ call.x < 0 \/ call.x >= first.width
        \/ first.tiles[call.y][call.x + 1] \notin {LADDER, LADDER_EXIT}
        \/ /\ call.result = FALSE
           /\ tm.tiles = first.tiles
           /\ tm.holes = first.holes

\* digHole was refused on a brick under an exit-ladder tile
C14_Witness ==
    /\ call.op = "digHole"
    /\ call.result = FALSE
    /\ call.x = 1 /\ call.y = 2
    /\ first.tiles[call.y + 1][call.x + 1] = BRICK
    /\ first.tiles[call.y][call.x + 1] = LADDER_EXIT



\* C15: getTile answers hard brick for every coordinate outside the grid,
\* whatever the grid holds, and setTile on such a coordinate leaves the grid
\* as it was
C15_OutsideIsHardBrick ==
    (/\ call.op \in {"getTile", "setTile"}
     /\ (call.x < 0 \/ call.x >= first.width \/ call.y < 0 \/ call.y >= first.height))
    => /\ call.op = "getTile" => call.result = BRICK_HARD
       /\ tm = first

\* getTile was asked for the cell below the bottom row of a grid whose cell
\* above it, in the bottom row, is an ordinary brick
C15_Witness ==
    /\ call.op = "getTile"
    /\ call.x = 1 /\ call.y = tm.height
    /\ call.result = BRICK_HARD
    /\ tm.tiles[tm.height][2] = BRICK



\* C16: for the seed "ABC123", difficulty normal and level 1, generate() with
\* its default budget returns before the budget is used up, and the grid it
\* returns has between 8 and 12 items
C16_ScenarioItems ==
    (/\ pc = "done"
     /\ input.seed = <<65, 66, 67, 49, 50, 51>>
     /\ input.difficultyKey = "normal"
     /\ input.levelNumber = 1
     /\ input.maxAttempts = DefaultAttempts)
    => /\ attempt < input.maxAttempts
       /\ Len(ret.goldPositions) \in 8..12
       /\ Cardinality({p \in Range(Cells(ret.width, ret.height)) :
                           ret.tiles[p.y + 1][p.x + 1] = GOLD}) \in 8..12

\* the scenario returned the candidate of its sixth attempt, with 9 items
C16_Witness ==
    /\ pc = "done"
    /\ input.seed = <<65, 66, 67, 49, 50, 51>>
    /\ input.difficultyKey = "normal"
    /\ input.maxAttempts = DefaultAttempts
    /\ attempt = 5
    /\ res.solvable
    /\ Len(ret.goldPositions) = 9



\* the statements generate() has yet to execute at most: those of the
\* iterations left, and the return
StepsLeft ==
    IF pc = "done" THEN 0
    ELSE IF pc = "generate" THEN 3 + input.maxAttempts * Len(Statements)
    ELSE 2 + (input.maxAttempts - attempt) * Len(Statements)
           - (CHOOSE k \in 1..Len(Statements) : Statements[k] = pc) + 1

\* C17: generate() always ends and returns a grid: the loop runs at most
\* maxAttempts times, one candidate per iteration, every statement brings the
\* return nearer, and once generate() has returned nothing more is generated
C17_Terminates ==
    /\ <>(pc = "done" /\ ret # NoMap)
    /\ [](attempt <= input.maxAttempts /\ Len(log) <= input.maxAttempts /\ StepsLeft >= 0)
    /\ [][pc # "done" /\ StepsLeft' < StepsLeft]_vars

\* a budget of two attempts was used up and generate() returned
C17_Witness ==
    /\ pc = "done"
    /\ ret # NoMap
    /\ input.maxAttempts = 2
    /\ attempt = 2
    /\ Len(log) = 2



\* C18: a generator built with a difficulty key that is no key of DIFFICULTIES
\* raises no error, and returns the grid that a generator built with "normal",
\* the same seed and the same level returns
C18_UnknownLikeNormal ==
    /\ pc # "error"
    /\ (pc = "done" /\ first # NoMap) =>
           /\ ret.tiles = first.tiles
           /\ ret.playerStart = first.playerStart
           /\ ret.enemyStarts = first.enemyStarts
           /\ ret.goldPositions = first.goldPositions
           /\ ret.exitLadders = first.exitLadders



\* C19: the grid generate() returns, candidate or fallback, has a non-empty
\* exit-ladder list and no ladder and no exit-ladder tile in rows 0..3; no
\* exit-ladder tile is written anywhere in it by the generator or the checker
C19_ExitHidden ==
    pc = "done" =>
        /\ Len(ret.exitLadders) > 0
        /\ \A r \in 1..4 : \A c \in 1..ret.width : ret.tiles[r][c] \notin {LADDER, LADDER_EXIT}
        /\ \A r \in 1..ret.height : \A c \in 1..ret.width : ret.tiles[r][c] # LADDER_EXIT

\* a checked candidate was returned whose exit column goes on as a ladder
\* below the hidden rows
C19_Witness ==
    /\ pc = "done"
    /\ Len(log) > 0 /\ ret = log[Len(log)].map
    /\ ret # generateFallback
    /\ Len(ret.exitLadders) = 4
    /\ \A k \in 1..4 : ret.exitLadders[k].y = k - 1
    /\ ret.tiles[5][ret.exitLadders[1].x + 1] = LADDER



\* C20: range(lo, hi) returns an integer r with lo <= r < hi, pick returns an
\* element of its list, shuffle leaves a permutation of its list, and a call
\* made after the same number of draws on an object with the same seed, with
\* the same arguments, has the same result
C20_RangePickShuffle ==
    /\ call.op = "range" => call.result \in call.args[1]..(call.args[2] - 1)
    /\ call.op = "pick" => \E i \in 1..Len(call.args[1]) : call.args[1][i] = call.result
    /\ call.op = "shuffle" =>
           /\ Len(call.result) = Len(call.args[1])
           /\ \A v \in {call.args[1][i] : i \in 1..Len(call.args[1])} :
                  Cardinality({i \in 1..Len(call.result) : call.result[i] = v})
                      = Cardinality({i \in 1..Len(call.args[1]) : call.args[1][i] = v})
    /\ pc = "second" =>
           \A i \in 1..Len(log) :
               (log[i].op = call.op /\ log[i].k = call.k /\ log[i].args = call.args)
                   => log[i].result = call.result

\* the second object answers a pick after two draws as the first object did,
\* whose two draws were calls of range
C20_Witness ==
    /\ pc = "second"
    /\ call.op = "pick" /\ call.k = 2
    /\ Len(log) = 3
    /\ log[1].op = "range" /\ log[2].op = "range"
    /\ log[3].op = "pick" /\ log[3].result = call.result



\* C21: checkSolvability judges the exit reachable exactly when row 0 of some
\* exit-ladder column is in the player-reachable set computed with the exit
\* ladder revealed
C21_ExitAtTopRow ==
    (pc = "checked" /\ res.debug = "checked") =>
        (res.exitReachable <=>
            \E i \in 1..Len(tm.exitLadders) : Pos(tm.exitLadders[i].x, 0) \in obs.reachableWithExit)

\* C21 as the code has it: the exit is judged reachable exactly when row 0 of
\* some exit-ladder column or some exit-ladder cell is in that set
C21_ExitAtTopRowOrCell ==
    (pc = "checked" /\ res.debug = "checked") =>
        (res.exitReachable <=>
            \E i \in 1..Len(tm.exitLadders) :
                \/ Pos(tm.exitLadders[i].x, 0) \in obs.reachableWithExit
                \/ tm.exitLadders[i] \in obs.reachableWithExit)

\* the exit was judged reachable through an exit-ladder cell under a brick
\* that is no exit-ladder cell, with row 0 of the exit column out of reach
C21_ExitUnderBrick ==
    /\ pc = "checked" /\ res.debug = "checked"
    /\ res.exitReachable /\ res.solvable
    /\ \A i \in 1..Len(tm.exitLadders) :
          /\ Pos(tm.exitLadders[i].x, 0) \notin obs.reachableWithExit
          /\ tm.exitLadders[i].y # 0
          /\ tm.tiles[1][tm.exitLadders[i].x + 1] = BRICK



-----------------------------------------------------------------------------
(* Properties of the neighbour lists and of the two searches.               *)

\* C22: in the player variant and in the enemy variant a step into a side
\* column is generated only from a cell with support (a ladder or pole cell,
\* the bottom row, or a supporting tile below) into a neighbour that is in
\* bounds and not solid, and its target is the cell where a fall from that
\* neighbour comes to rest (the player variant has the dig steps besides); a
\* step up is generated only from a ladder cell, and a step down only from a
\* ladder cell or onto a ladder cell
C22_StepRules ==
    call.op \in {"getReachableNeighbors", "getEnemyReachableNeighbors"} =>
        LET x == call.pos.x
            y == call.pos.y
            Inside(c, r) == c >= 0 /\ c < tm.width /\ r >= 0 /\ r < tm.height
            Tile(c, r) == IF Inside(c, r) THEN tm.tiles[r + 1][c + 1] ELSE BRICK_HARD
            Exit(c, r) == call.include /\ \E i \in 1..Len(tm.exitLadders) : tm.exitLadders[i] = Pos(c, r)
            Lad(c, r) == Tile(c, r) \in {LADDER, LADDER_EXIT} \/ Exit(c, r)
            Free(c, r) == Inside(c, r) /\ Tile(c, r) \notin {BRICK, BRICK_HARD, BRICK_TRAP}
            Supported == \/ Lad(x, y)
                         \/ Tile(x, y) = POLE
                         \/ y = tm.height - 1
                         \/ Tile(x, y + 1) \in {BRICK, BRICK_HARD, LADDER, LADDER_EXIT}
                         \/ Exit(x, y + 1)
            Stop(c, r) == \/ r >= tm.height - 1
                          \/ Lad(c, r)
                          \/ Tile(c, r) = POLE
                          \/ Tile(c, r + 1) \in {BRICK, BRICK_HARD, BRICK_TRAP, LADDER, LADDER_EXIT}
            Rests(c, r, t) == /\ t.x = c /\ t.y >= r /\ Stop(c, t.y)
                              /\ \A r2 \in r..(t.y - 1) : ~Stop(c, r2)
            Dug(c) == /\ call.op = "getReachableNeighbors"
                      /\ Tile(c, y + 1) \in {BRICK, BRICK_TRAP}
                      /\ Tile(c, y) \notin {LADDER, LADDER_EXIT}
        IN \A t \in call.result :
              /\ t.x \in {x - 1, x, x + 1}
              /\ t.x # x => \/ Supported /\ Free(t.x, y) /\ Rests(t.x, y, t)
                            \/ Supported /\ Dug(t.x)
              /\ t.x = x => t.y \in {y - 1, y + 1} /\ Free(x, t.y)
              /\ t = Pos(x, y - 1) => Lad(x, y)
              /\ t = Pos(x, y + 1) => Lad(x, y) \/ Lad(x, y + 1)

\* the enemy variant made a step into a side column that ends two rows lower,
\* together with a step up
C22_Witness ==
    /\ call.op = "getEnemyReachableNeighbors"
    /\ \E t \in call.result : t.x # call.pos.x /\ t.y >= call.pos.y + 2
    /\ Pos(call.pos.x, call.pos.y - 1) \in call.result



\* C23: from every start cell the cells the enemy search reaches are among the
\* cells the player search of the first pass reaches, and on a grid without a
\* diggable cell the two searches reach the same cells
C23_EnemyWithinPlayer ==
    call.op = "reach" =>
        LET Diggable(c, r) ==
                /\ tm.tiles[r + 1][c + 1] \in {BRICK, BRICK_TRAP}
                /\ r > 0 => tm.tiles[r][c + 1] \notin {LADDER, LADDER_EXIT}
        IN /\ call.enemy \subseteq call.player
           /\ (\A c \in 0..(tm.width - 1), r \in 0..(tm.height - 1) : ~Diggable(c, r))
                 => call.enemy = call.player

\* both searches ran from one cell of a grid of hard brick and reached four
\* cells or more, on a ladder among them
C23_Witness ==
    /\ call.op = "reach"
    /\ \A c \in 1..tm.width, r \in 1..tm.height : tm.tiles[r][c] \notin {BRICK, BRICK_TRAP}
    /\ Cardinality(call.enemy) >= 4
    /\ call.enemy = call.player
    /\ \E p \in call.enemy : tm.tiles[p.y + 1][p.x + 1] = LADDER



-----------------------------------------------------------------------------
(* Properties of the attempts of one call of generate().                    *)

-----------------------------------------------------------------------------
(* Properties of the candidates of generate(), read from log.               *)

\* C25: in every candidate the column of the exit ladder has no pole and no
\* soft, hard or trap brick in rows 0..3
C25_ExitColumnClear ==
    \A i \in 1..Len(log) :
        \A j \in 1..Len(log[i].map.exitLadders), y \in 0..(EXIT_HIDDEN_ROWS - 1) :
            log[i].map.tiles[y + 1][log[i].map.exitLadders[j].x + 1]
                \notin {POLE, BRICK, BRICK_HARD, BRICK_TRAP}



-----------------------------------------------------------------------------
(* Properties of the stages of generateCandidate, read from the grid tm     *)
(* under construction.                                                      *)

\* C27: when ensureLadderAccessibility has run, every ladder run whose top
\* is below row 0 has a landing: the cell above its top is not solid, or a
\* cell beside its top is not solid and has support beneath
C27_LadderTopsMountable ==
    pc = "placePlayer" =>
        LET Tile(x, y) == IF x < 0 \/ x >= tm.width \/ y < 0 \/ y >= tm.height
                          THEN BRICK_HARD ELSE tm.tiles[y + 1][x + 1]
            Ladder(x, y) == Tile(x, y) \in {LADDER, LADDER_EXIT}
            Solid(x, y) == Tile(x, y) \in {BRICK, BRICK_HARD, BRICK_TRAP}
            Beside(x, y) == /\ x >= 0 /\ x < tm.width
                            /\ ~Solid(x, y)
                            /\ Tile(x, y + 1) \in {BRICK, BRICK_HARD, LADDER, LADDER_EXIT}
        IN \A x \in 0..(tm.width - 1), top \in 1..(tm.height - 2) :
              (Ladder(x, top) /\ ~Ladder(x, top - 1)) =>
                  \/ ~Solid(x, top - 1)
                  \/ Beside(x - 1, top)
                  \/ Beside(x + 1, top)

\* ensureLadderAccessibility has run; one ladder run has a brick above its
\* top and a landing beside it, another has its top under an open cell of a
\* row of bricks
C27_Witness ==
    /\ pc = "placePlayer"
    /\ \E x \in 2..(tm.width - 1), top \in 2..(tm.height - 1) :
          /\ tm.tiles[top][x] = LADDER
          /\ tm.tiles[top - 1][x] \in {BRICK, BRICK_HARD, BRICK_TRAP}
    /\ \E x \in 2..(tm.width - 1), top \in 2..(tm.height - 1) :
          /\ tm.tiles[top][x] = LADDER
          /\ tm.tiles[top - 1][x] = EMPTY
          /\ tm.tiles[top - 1][x - 1] \in {BRICK, BRICK_HARD, BRICK_TRAP}
          /\ tm.tiles[top - 1][x + 1] \in {BRICK, BRICK_HARD, BRICK_TRAP}



\* C28: every platform band after the first gets a ladder within 4 columns
\* of a ladder column of the band before it
C28_BandsChained ==
    pc = "addExtraLadders" =>
        \A i \in 2..Len(obs.bands) :
            \E j \in 1..Len(obs.bands[i]), k \in 1..Len(obs.bands[i - 1]) :
                /\ obs.bands[i][j] - obs.bands[i - 1][k] <= 4
                /\ obs.bands[i - 1][k] - obs.bands[i][j] <= 4



-----------------------------------------------------------------------------
(* Properties of the candidates of generate(), read from log (continued).   *)

\* C29: in every candidate the bottom row holds soft brick only, and the
\* start is in row height - 2 on a cell that is not solid
C29_GroundAndStart ==
    \A i \in 1..Len(log) :
        LET map == log[i].map
        IN /\ \A x \in 1..map.width : map.tiles[map.height][x] = BRICK
           /\ map.playerStart.y = map.height - 2
           /\ map.playerStart.x \in 0..(map.width - 1)
           /\ map.tiles[map.playerStart.y + 1][map.playerStart.x + 1]
                 \notin {BRICK, BRICK_HARD, BRICK_TRAP}

\* a call has made two candidates with different starts, one of them at the
\* foot of a ladder
C29_Witness ==
    /\ Len(log) >= 2
    /\ log[1].map.playerStart # log[2].map.playerStart
    /\ \E i \in 1..Len(log) :
          log[i].map.tiles[log[i].map.playerStart.y + 1][log[i].map.playerStart.x + 1] = LADDER



\* C30: the enemy starts of every candidate are pairwise distinct cells at
\* Manhattan distance 3 or more from each other and more than 8 from the
\* start, and there are never more of them than the cap of the difficulty
\* (easy 4, normal 5, hard 6, ninja 7), at every level
C30_EnemyStarts ==
    \A i \in 1..Len(log) :
        LET map == log[i].map
            e == map.enemyStarts
            Dist(p, q) == (IF p.x > q.x THEN p.x - q.x ELSE q.x - p.x)
                          + (IF p.y > q.y THEN p.y - q.y ELSE q.y - p.y)
        IN /\ \A j \in 1..Len(e), k \in 1..Len(e) :
                 j < k => e[j] # e[k] /\ Dist(e[j], e[k]) >= 3
           /\ \A j \in 1..Len(e) : Dist(e[j], map.playerStart) > 8
           /\ input.difficultyKey = "easy" => Len(e) <= 4
           /\ input.difficultyKey = "normal" => Len(e) <= 5
           /\ input.difficultyKey = "hard" => Len(e) <= 6
           /\ input.difficultyKey = "ninja" => Len(e) <= 7

\* a candidate of level 31 with key easy has four enemy starts, one more
\* than the profile's base count allows at level 1
C30_Witness ==
    /\ input.levelNumber = 31 /\ input.difficultyKey = "easy"
    /\ Len(log) >= 1
    /\ Len(log[1].map.enemyStarts) = 4



\* the cell (call.x, call.y) of the TileMap before the call is a soft or trap
\* brick inside the grid with no ladder and no exit ladder directly above it
C31_Diggable ==
    /\ call.x >= 0 /\ call.x < first.width /\ call.y >= 0 /\ call.y < first.height
    /\ first.tiles[call.y + 1][call.x + 1] \in {BRICK, BRICK_TRAP}
    /\ (call.y > 0 => first.tiles[call.y][call.x + 1] \notin {LADDER, LADDER_EXIT})

\* C31: digHole on a diggable soft or trap brick turns exactly that cell into a
\* hole, appends exactly one hole record with the cell's original category and
\* a countdown of the base duration times the grid's multiplier, and returns
\* true; on any other cell it returns false and leaves tiles and hole list
\* as they were
C31_DigHole ==
    call.op = "digHole" =>
        IF C31_Diggable
        THEN /\ call.result = TRUE
             /\ tm.tiles = [first.tiles EXCEPT ![call.y + 1][call.x + 1] = HOLE]
             /\ Len(tm.holes) = Len(first.holes) + 1
             /\ SubSeq(tm.holes, 1, Len(first.holes)) = first.holes
             /\ tm.holes[Len(tm.holes)].x = call.x
             /\ tm.holes[Len(tm.holes)].y = call.y
             /\ tm.holes[Len(tm.holes)].originalTile = first.tiles[call.y + 1][call.x + 1]
             /\ tm.holes[Len(tm.holes)].timerMs = HOLE_DURATION_MS * first.holeDurationMultiplier
        ELSE /\ call.result = FALSE
             /\ tm.tiles = first.tiles
             /\ tm.holes = first.holes

\* a trap brick was dug on a grid of the profile ninja while another hole was open
C31_Witness ==
    /\ call.op = "digHole"
    /\ call.result = TRUE
    /\ first.tiles[call.y + 1][call.x + 1] = BRICK_TRAP
    /\ first.holeDurationMultiplier = 6
    /\ Len(first.holes) > 0

\* digHole was refused on an open hole
C31_WitnessRefused ==
    /\ call.op = "digHole"
    /\ call.result = FALSE
    /\ call.x >= 0
    /\ first.tiles[call.y + 1][call.x + 1] = HOLE


\* C33: under any sequence of digHole and updateHoles the hole list and the
\* HOLE cells correspond one to one: the cell of every record holds HOLE, every
\* HOLE cell has exactly one record, and the original category of every record
\* is soft brick or trap brick
C33_HolesMatchCells ==
    /\ \A i \in 1..Len(tm.holes) :
          /\ tm.holes[i].x \in 0..(tm.width - 1)
          /\ tm.holes[i].y \in 0..(tm.height - 1)
          /\ tm.tiles[tm.holes[i].y + 1][tm.holes[i].x + 1] = HOLE
          /\ tm.holes[i].originalTile \in {BRICK, BRICK_TRAP}
    /\ \A x \in 0..(tm.width - 1), y \in 0..(tm.height - 1) :
          tm.tiles[y + 1][x + 1] = HOLE =>
              Cardinality({ i \in 1..Len(tm.holes) : tm.holes[i].x = x /\ tm.holes[i].y = y }) = 1

\* updateHoles has just refilled a hole while two others, a soft brick and a
\* trap brick, stay open
C33_Witness ==
    /\ call.op = "updateHoles"
    /\ Len(call.filled) > 0
    /\ Len(tm.holes) = 2
    /\ tm.holes[1].originalTile # tm.holes[2].originalTile


\* the hole of list holes at the cell (x, y) is among them
C34_Listed(holes, x, y) == \E j \in 1..Len(holes) : holes[j].x = x /\ holes[j].y = y

\* after updateHoles: a hole open before the call is in the warning list
\* exactly when its remaining countdown is positive and within the warning
\* window, in the filled list exactly when its countdown has run out, and
\* never in both
C34_WarningExact ==
    call.op = "updateHoles" =>
        \A i \in 1..Len(first.holes) :
            LET h == first.holes[i]
                left == h.timerMs - call.deltaMs * call.speedMultiplier
            IN /\ C34_Listed(call.warning, h.x, h.y) <=> (left > 0 /\ left <= HOLE_WARNING_MS * 10)
               /\ C34_Listed(call.filled, h.x, h.y) <=> left <= 0
               /\ ~(C34_Listed(call.warning, h.x, h.y) /\ C34_Listed(call.filled, h.x, h.y))
               /\ C34_Listed(tm.holes, h.x, h.y) <=> left > 0

\* C34: when updateHoles keeps being called with a positive elapsed time and a
\* positive speed scale, every hole is eventually reported filled and its cell
\* holds a brick again; until then it is in the warning list of a call exactly
\* when its remaining countdown is positive and within the warning window, and
\* never in the warning list of the call that fills it
C34_HolesRefilled ==
    /\ [] C34_WarningExact
    /\ \A x \in 0..2, y \in 0..(SmallHeight - 1) :
          (tm.tiles[y + 1][x + 1] = HOLE)
              ~> (/\ call.op = "updateHoles"
                  /\ C34_Listed(call.filled, x, y)
                  /\ tm.tiles[y + 1][x + 1] \in {BRICK, BRICK_TRAP})

\* one call of updateHoles filled a hole and reported another one as closing
C34_Witness ==
    /\ call.op = "updateHoles"
    /\ Len(call.filled) > 0
    /\ Len(call.warning) > 0


\* C32: clone returns a grid whose tile matrix, start and enemy, item and
\* exit-ladder lists equal the original's, and the two grids share no mutable
\* structure: a later setTile, digHole, push on a list or write to a list
\* entry or to the start on either grid leaves the other grid as it was
C32_CloneIndependent ==
    /\ call.op = "clone" =>
          /\ ret.width = tm.width /\ ret.height = tm.height
          /\ \A x \in 0..(tm.width - 1), y \in 0..(tm.height - 1) :
                ret.tiles[y + 1][x + 1] = tm.tiles[y + 1][x + 1]
          /\ ret.playerStart = tm.playerStart
          /\ ret.enemyStarts = tm.enemyStarts
          /\ ret.goldPositions = tm.goldPositions
          /\ ret.exitLadders = tm.exitLadders
    /\ (pc = "cloned" /\ call.op \in {"setTile", "digHole", "push", "setItem", "setStart"}) =>
          /\ call.on = "orig" => ret = first.copy
          /\ call.on = "copy" => tm = first.orig

\* after clone, an entry of a list of the original was overwritten, and the
\* copy, which had a hole cell, a start and three non-empty lists, still holds
\* what it held
C32_Witness ==
    /\ pc = "cloned"
    /\ call.op = "setItem"
    /\ call.on = "orig"
    /\ tm # first.orig
    /\ ret = first.copy
    /\ \E x \in 0..(ret.width - 1), y \in 0..(ret.height - 1) : ret.tiles[y + 1][x + 1] = HOLE
    /\ \A list \in {"enemyStarts", "goldPositions", "exitLadders"} : Len(ret[list]) > 0

\* C39: clone preserves the hole state: the copy has the original's
\* hole-duration multiplier and a hole record for every HOLE cell it copies
C39_CloneKeepsHoles ==
    call.op = "clone" =>
        /\ ret.holeDurationMultiplier = tm.holeDurationMultiplier
        /\ \A x \in 0..(ret.width - 1), y \in 0..(ret.height - 1) :
              ret.tiles[y + 1][x + 1] = HOLE =>
                  \E i \in 1..Len(ret.holes) : ret.holes[i].x = x /\ ret.holes[i].y = y


\* C35: in every grid returned by generate the item list has pairwise
\* distinct cells, every listed cell holds GOLD, and every GOLD tile is listed
C35_ItemsMatchTiles ==
    pc = "done" =>
        /\ \A i, j \in 1..Len(ret.goldPositions) :
              ret.goldPositions[i] = ret.goldPositions[j] => i = j
        /\ \A i \in 1..Len(ret.goldPositions) :
              ret.tiles[ret.goldPositions[i].y + 1][ret.goldPositions[i].x + 1] = GOLD
        /\ \A x \in 0..(ret.width - 1), y \in 0..(ret.height - 1) :
              ret.tiles[y + 1][x + 1] = GOLD =>
                  \E i \in 1..Len(ret.goldPositions) : ret.goldPositions[i] = Pos(x, y)


\* C36: every cell of a reachable set other than the start cell is a resting
\* cell by the support rule of the checker: a ladder cell, a pole cell, a cell
\* of the bottom row, or a cell with a supporting tile (soft or hard brick,
\* ladder) below
C36_ReachedCellsRest ==
    call.op = "reach" =>
        LET Tile(c, r) == tm.tiles[r + 1][c + 1]
            Resting(t) == \/ Tile(t.x, t.y) \in {LADDER, LADDER_EXIT, POLE}
                          \/ t.y = tm.height - 1
                          \/ Tile(t.x, t.y + 1) \in {BRICK, BRICK_HARD, LADDER, LADDER_EXIT}
        IN \A t \in (call.player \cup call.enemy) \ {call.pos} : Resting(t)

\* every cell of a reachable set that is above the bottom row and has no trap
\* brick below is a ladder or pole cell or has a supporting tile below: the
\* cells above a trap brick are the only ones that are not resting cells
C36_RestExceptOnTrap ==
    call.op = "reach" =>
        \A t \in (call.player \cup call.enemy) \ {call.pos} :
            (t.y < tm.height - 1 /\ tm.tiles[t.y + 2][t.x + 1] # BRICK_TRAP) =>
                \/ tm.tiles[t.y + 1][t.x + 1] \in {LADDER, LADDER_EXIT, POLE}
                \/ tm.tiles[t.y + 2][t.x + 1] \in {BRICK, BRICK_HARD, LADDER, LADDER_EXIT}


\* C37: every dig-assisted step of the player search leaves a supported cell
\* (x, y), has as target the cell where a fall from the diggable cell
\* (x -+ 1, y + 1) comes to rest, and is generated only if the cell beside the
\* player, (x -+ 1, y), is in bounds and not solid.  A target in a side column
\* below row y, with a soft or trap brick in that column at row y + 1, comes
\* from a dig: a walk ends above that brick
C37_DigSteps ==
    call.op = "getReachableNeighbors" =>
        LET x == call.pos.x
            y == call.pos.y
            Inside(c, r) == c >= 0 /\ c < tm.width /\ r >= 0 /\ r < tm.height
            Tile(c, r) == IF Inside(c, r) THEN tm.tiles[r + 1][c + 1] ELSE BRICK_HARD
            Exit(c, r) == call.include /\ \E i \in 1..Len(tm.exitLadders) : tm.exitLadders[i] = Pos(c, r)
            Lad(c, r) == Tile(c, r) \in {LADDER, LADDER_EXIT} \/ Exit(c, r)
            Supported == \/ Lad(x, y)
                         \/ Tile(x, y) = POLE
                         \/ y = tm.height - 1
                         \/ Tile(x, y + 1) \in {BRICK, BRICK_HARD, LADDER, LADDER_EXIT}
                         \/ Exit(x, y + 1)
            Stop(c, r) == \/ r >= tm.height - 1
                          \/ Lad(c, r)
                          \/ Tile(c, r) = POLE
                          \/ Tile(c, r + 1) \in {BRICK, BRICK_HARD, BRICK_TRAP, LADDER, LADDER_EXIT}
            Diggable(c) == /\ Tile(c, y + 1) \in {BRICK, BRICK_TRAP}
                           /\ Tile(c, y) \notin {LADDER, LADDER_EXIT}
            DigEdge(t) == t.x # x /\ t.y > y /\ Tile(t.x, y + 1) \in {BRICK, BRICK_TRAP}
        IN \A t \in call.result :
              DigEdge(t) =>
                  /\ t.x \in {x - 1, x + 1}
                  /\ Supported
                  /\ Diggable(t.x)
                  /\ t.y >= y + 1 /\ Stop(t.x, t.y)
                  /\ \A r \in (y + 1)..(t.y - 1) : ~Stop(t.x, r)
                  /\ Inside(t.x, y)
                  /\ Tile(t.x, y) \notin {BRICK, BRICK_HARD, BRICK_TRAP}

\* the same without the condition on the cell beside the player
C37_DigStepsUnderWall ==
    call.op = "getReachableNeighbors" =>
        LET x == call.pos.x
            y == call.pos.y
            Inside(c, r) == c >= 0 /\ c < tm.width /\ r >= 0 /\ r < tm.height
            Tile(c, r) == IF Inside(c, r) THEN tm.tiles[r + 1][c + 1] ELSE BRICK_HARD
            Exit(c, r) == call.include /\ \E i \in 1..Len(tm.exitLadders) : tm.exitLadders[i] = Pos(c, r)
            Lad(c, r) == Tile(c, r) \in {LADDER, LADDER_EXIT} \/ Exit(c, r)
            Supported == \/ Lad(x, y)
                         \/ Tile(x, y) = POLE
                         \/ y = tm.height - 1
                         \/ Tile(x, y + 1) \in {BRICK, BRICK_HARD, LADDER, LADDER_EXIT}
                         \/ Exit(x, y + 1)
            Stop(c, r) == \/ r >= tm.height - 1
                          \/ Lad(c, r)
                          \/ Tile(c, r) = POLE
                          \/ Tile(c, r + 1) \in {BRICK, BRICK_HARD, BRICK_TRAP, LADDER, LADDER_EXIT}
            Diggable(c) == /\ Tile(c, y + 1) \in {BRICK, BRICK_TRAP}
                           /\ Tile(c, y) \notin {LADDER, LADDER_EXIT}
            DigEdge(t) == t.x # x /\ t.y > y /\ Tile(t.x, y + 1) \in {BRICK, BRICK_TRAP}
        IN \A t \in call.result :
              DigEdge(t) =>
                  /\ t.x \in {x - 1, x + 1}
                  /\ Supported
                  /\ Diggable(t.x)
                  /\ t.y >= y + 1 /\ Stop(t.x, t.y)
                  /\ \A r \in (y + 1)..(t.y - 1) : ~Stop(t.x, r)


\* C38: the classification of the items does not depend on the exit-ladder
\* list: two grids that differ in their non-empty exit-ladder lists only get
\* the same numbers of direct, enemy-assisted and unreachable items
C38_ClassesIgnoreExits ==
    (/\ call.op = "checkWithExits"
     /\ Len(tm.exitLadders) > 0 /\ Len(first.map.exitLadders) > 0
     /\ tm = [first.map EXCEPT !.exitLadders = tm.exitLadders]) =>
        /\ res.directGold = first.result.directGold
        /\ res.enemyAssistedGold = first.result.enemyAssistedGold
        /\ res.unreachableGold = first.result.unreachableGold

\* the two grids have different exit-ladder lists and different verdicts on
\* the exit, and an item that the player reaches over the exit ladder only is
\* unreachable in both
C38_Witness ==
    /\ call.op = "checkWithExits"
    /\ tm.exitLadders # first.map.exitLadders
    /\ res.exitReachable # first.result.exitReachable
    /\ res.unreachableGold > 0
    /\ checkSolvabilityExitsShown(chk, tm).unreachableGold = 0

====
